---- MODULE Spec2Model ----
(***************************************************************************)
(* A model of ccpr (src/ccpr/__init__.py): the TTL response cache and      *)
(* remote call dispatcher (ccapi), the query/filter/join engine (cc) and   *)
(* the structural diff renderer (print_diff).                              *)
(***************************************************************************)
EXTENDS Integers, Sequences, FiniteSets, TLC

VARIABLES
    clock,      \* wall clock (time.time()), in ticks
    store,      \* the cache directory: cache file name -> file
    last,       \* summary of the most recent ccapi call
    prev,       \* summary of the ccapi call before it
    ccpc,       \* cc: where the query stands
    qs,         \* cc: the query (q, f, j)
    svc,        \* cc: how the remote service answers this query
    data,       \* cc: the working data
    listified,  \* cc: a single record was wrapped into a list
    jidx,       \* cc: the join step being run (1-based)
    jkw,        \* _join_data: join_kwargs, one argument set per record
    jres,       \* _join_data: what each pooled secondary call came to
    work0,      \* history: the working list before the joins
    before,     \* history: the working list before the current join step
    sawFail,    \* history: some secondary call failed
    ret,        \* cc: how the query ended
    dpc,        \* print_diff: where the rendering stands
    from_txt,   \* print_diff: the lines of the source text
    to_txt,     \* print_diff: the lines of the destination text
    dname,      \* print_diff: the document name ("" for None)
    dcomments,  \* print_diff: the comment overlay
    diff,       \* print_diff: the aligned rows difflib._mdiff gave
    out,        \* print_diff: the rows printed
    mpc,        \* approve/close/merge: where the command stands
    cmd,        \* approve/close/merge: the command and what it meets
    calls,      \* approve/close/merge: the state-changing calls issued
    console,    \* approve/close/merge: the lines printed
    mret,       \* approve/close/merge: how the command ended
    pjob,       \* pool: the fan-out under way (a join step or a grep)
    ptasks,     \* pool: the control thread and every task submitted to EX
    pqueue,     \* pool: the work queue of EX, oldest first
    tjob,       \* concurrent calls: what the pool threads were given
    thr,        \* concurrent calls: where each pool thread is in ccapi
    remote      \* the service: the pull request and the calls it served

cvars == <<clock, store, last, prev>>
jvars == <<ccpc, qs, svc, data, listified, jidx, jkw, jres, work0, before,
           sawFail, ret>>
dvars == <<dpc, from_txt, to_txt, dname, dcomments, diff, out>>
mvars == <<mpc, cmd, calls, console, mret>>
pvars == <<pjob, ptasks, pqueue>>
tvars == <<tjob, thr>>
svars == <<remote>>
xvars == <<pvars, tvars, svars>>
vars == <<clock, store, last, prev, ccpc, qs, svc, data, listified, jidx,
          jkw, jres, work0, before, sawFail, ret, dpc, from_txt, to_txt,
          dname, dcomments, diff, out, mpc, cmd, calls, console, mret,
          pjob, ptasks, pqueue, tjob, thr, remote>>

(***************************************************************************)
(* Bounds                                                                  *)
(***************************************************************************)
MaxClock == 6       \* the clock stops here
MaxFetch == 1       \* longest remote invocation, in ticks
MaxClockIO == 2     \* the clock stops here when the directory is shared

(***************************************************************************)
(* Values, responses and their JSON form                                   *)
(***************************************************************************)
NoneVal == [t |-> "none"]
Str(s) == [t |-> "str", v |-> s]
Dt(s) == [t |-> "datetime", v |-> s]

\* dt_timestamp: a datetime becomes its 'YYYY-MM-DD HH:MM:SS' string
dt_timestamp(dt) == Str(dt.v)

\* json_serial, the default= hook of json.dumps: datetimes become strings
json_serial(obj) == IF obj.t = "datetime" THEN dt_timestamp(obj) ELSE obj

\* dict.pop(field, None)
Pop(d, field) == [f \in (DOMAIN d) \ {field} |-> d[f]]

\* d[field] = value
SetItem(d, field, value) ==
    [f \in (DOMAIN d) \cup {field} |-> IF f = field THEN value ELSE d[f]]

\* json.dumps(r, default=json_serial): the text written to the cache file
Dumps(r) == [ok |-> TRUE, doc |-> [f \in DOMAIN r |-> json_serial(r[f])]]
\* the content of a file that open(.., 'w') has truncated and nobody filled
EmptyText == [ok |-> FALSE]
\* json.loads(text); raises on text that is no JSON document
LoadsRaises(text) == ~text.ok
Loads(text) == text.doc

(***************************************************************************)
(* The remote service (boto3 client)                                       *)
(***************************************************************************)
\* a cache key is the cache file name: method + sha256 of the arguments
Keys == {"list_repositories-h1", "get_pull_request-h2"}
Method(k) == IF k = "list_repositories-h1" THEN "list_repositories"
             ELSE "get_pull_request"

\* what getattr(boto3.client(_client), method)(**kwargs) returns
RemoteResponse(k) ==
    IF k = "list_repositories-h1"
    THEN [ResponseMetadata |-> Str("req-id"), repositories |-> Str("repo1")]
    ELSE [ResponseMetadata |-> Str("req-id"), title |-> Str("title1"),
          creationDate |-> Dt("2020-01-01 10:00:00")]

\* cache_secs values a call runs with (the default is DefaultCacheSecs)
TTLs == {-1, 0, 2, 3}

(***************************************************************************)
(* The cache directory                                                     *)
(***************************************************************************)
NoFile == [exists |-> FALSE]
File(mtime, text) == [exists |-> TRUE, mtime |-> mtime, text |-> text]

\* line 242: the sweep's staleness test
ExpiredLenient(mtime, now, cache_secs) == mtime + 1 < now - cache_secs
Expired(mtime, now, cache_secs) == mtime < now - cache_secs

\* lines 236-246: the sweep over every file of the cache directory
Sweep(dir, now, cache_secs) ==
    [k \in DOMAIN dir |->
        IF dir[k].exists /\ Expired(dir[k].mtime, now, cache_secs)
        THEN NoFile ELSE dir[k]]

\* line 252: answer from the cache file?
UseCacheAlways(cache_secs, isfile) == isfile
UseCache(cache_secs, isfile) == cache_secs > 0 /\ isfile

\* line 261: persist the fetched response?
ShouldWriteAlways(cache_secs) == TRUE
ShouldWrite(cache_secs) == cache_secs > 0

\* lines 256-259: a ClientError ends the call through fatal()
FetchOutcomeSwallow(failed) == "return"
FetchOutcome(failed) == IF failed THEN "fatal" ELSE "return"

\* line 259: the message given to fatal
FatalMsg(method) == <<"unable to", method>>

(***************************************************************************)
(* ccapi, lines 221-268                                                    *)
(*   k: cache file of (method, kwargs); cache_secs: effective TTL;         *)
(*   failed: the remote call raises ClientError; d: ticks the remote call  *)
(*   takes; io: what the file system does to this call ("ok", "vanish":    *)
(*   a concurrent sweep removes the file between isfile and open,          *)
(*   "wfail": open(.., 'w') raises OSError); join_key: the passthrough;    *)
(*   response: what the remote operation returns when it is invoked.       *)
(* The value is the call's summary, with the directory it leaves behind.   *)
(***************************************************************************)
CcapiOn(dir, now, k, cache_secs, failed, d, io, join_key, response) ==
    LET swept == Sweep(dir, now, cache_secs)
        isfile == swept[k].exists
        base == [valid |-> TRUE, key |-> k, ttl |-> cache_secs, now |-> now,
                 failed |-> FALSE, io |-> io, pre |-> dir,
                 present |-> isfile, msg |-> <<>>]
        attach(r) == IF join_key = NoneVal THEN r
                     ELSE SetItem(r, "_join_key", join_key)
    IN  IF UseCache(cache_secs, isfile)
        THEN \* line 253
             IF io = "vanish"
             THEN base @@ [invoked |-> FALSE, outcome |-> "raise",
                           result |-> NoneVal, end |-> now,
                           dir |-> [swept EXCEPT ![k] = NoFile]]
             ELSE IF LoadsRaises(swept[k].text)
             THEN base @@ [invoked |-> FALSE, outcome |-> "raise",
                           result |-> NoneVal, end |-> now, dir |-> swept]
             ELSE base @@ [invoked |-> FALSE, outcome |-> "return",
                           result |-> attach(Loads(swept[k].text)),
                           end |-> now, dir |-> swept]
        ELSE \* lines 255-265
             IF FetchOutcome(failed) = "fatal"
             THEN [base EXCEPT !.failed = failed, !.msg = FatalMsg(Method(k))]
                  @@ [invoked |-> TRUE, outcome |-> "fatal",
                      result |-> NoneVal, end |-> now + d, dir |-> swept]
             ELSE LET r == Pop(response, "ResponseMetadata")
                  IN  IF ~ShouldWrite(cache_secs)
                      THEN [base EXCEPT !.failed = failed]
                           @@ [invoked |-> TRUE, outcome |-> "return",
                               result |-> attach(r), end |-> now + d,
                               dir |-> swept]
                      ELSE IF io = "wfail"
                      THEN [base EXCEPT !.failed = failed]
                           @@ [invoked |-> TRUE, outcome |-> "raise",
                               result |-> NoneVal, end |-> now + d,
                               dir |-> swept]
                      ELSE [base EXCEPT !.failed = failed]
                           @@ [invoked |-> TRUE, outcome |-> "return",
                               result |-> attach(r), end |-> now + d,
                               dir |-> [swept EXCEPT
                                          ![k] = File(now + d, Dumps(r))]]

\* ccapi against the service that answers as RemoteResponse says
Ccapi(dir, now, k, cache_secs, failed, d, io, join_key) ==
    CcapiOn(dir, now, k, cache_secs, failed, d, io, join_key,
            RemoteResponse(k))

NoCall == [valid |-> FALSE]

\* no query is running
JoinIdle ==
    /\ ccpc = "idle"
    /\ qs = NoneVal
    /\ svc = NoneVal
    /\ data = NoneVal
    /\ listified = FALSE
    /\ jidx = 0
    /\ jkw = <<>>
    /\ jres = <<>>
    /\ work0 = NoneVal
    /\ before = NoneVal
    /\ sawFail = FALSE
    /\ ret = NoneVal

\* what is remembered of the call before the last one
Brief(c) ==
    IF ~c.valid THEN NoCall
    ELSE [valid |-> TRUE, key |-> c.key, ttl |-> c.ttl, end |-> c.end,
          failed |-> c.failed, invoked |-> c.invoked,
          outcome |-> c.outcome, result |-> c.result]

\* nothing is submitted to the pool
PoolIdle ==
    /\ pjob = NoneVal
    /\ ptasks = <<>>
    /\ pqueue = <<>>

\* no pool thread is inside ccapi
ParIdle ==
    /\ tjob = NoneVal
    /\ thr = <<>>

\* no service with a pull request is attached
ServiceIdle == remote = NoneVal

\* the parts of the program that take no part in a run
RestIdle == PoolIdle /\ ParIdle /\ ServiceIdle

\* no command is under way
CmdIdle ==
    /\ mpc = "idle"
    /\ cmd = <<>>
    /\ calls = <<>>
    /\ console = <<>>
    /\ mret = [outcome |-> "none"]

\* no rendering is under way
DiffIdle ==
    /\ dpc = "idle"
    /\ from_txt = <<>>
    /\ to_txt = <<>>
    /\ dname = ""
    /\ dcomments = <<>>
    /\ diff = <<>>
    /\ out = <<>>

CacheInit ==
    /\ clock = 0
    /\ store = [k \in Keys |-> NoFile]
    /\ last = NoCall
    /\ prev = NoCall

\* one ccapi call by the control thread, start to end
CallWith(k, cache_secs, failed, d, io) ==
    /\ clock + d + 1 <= MaxClock
    /\ LET c == Ccapi(store, clock, k, cache_secs, failed, d, io, NoneVal)
       IN  /\ store' = c.dir
           /\ last' = Pop(c, "dir")
           /\ prev' = Brief(last)
           /\ clock' = c.end + 1
           /\ UNCHANGED <<jvars, dvars, mvars, xvars>>

Call ==
    \E k \in Keys, t \in TTLs, failed \in BOOLEAN, d \in 0..MaxFetch :
        CallWith(k, t, failed, d, "ok")

\* time passes between calls
Tick ==
    /\ clock < MaxClock
    /\ clock' = clock + 1
    /\ UNCHANGED <<store, last, prev>>
    /\ UNCHANGED <<jvars, dvars, mvars, xvars>>

CacheNext == Call \/ Tick

\* the cache on its own: an empty directory and no query running
Init == CacheInit /\ JoinIdle /\ DiffIdle /\ CmdIdle /\ RestIdle

Spec == Init /\ [][CacheNext]_vars

(***************************************************************************)
(* The cache directory shared with other processes and pool threads        *)
(***************************************************************************)
\* a call whose file operations may be crossed by a concurrent sweep or fail
CallIO ==
    \E k \in Keys, t \in TTLs, failed \in BOOLEAN, d \in 0..MaxFetch,
       io \in {"ok", "vanish", "wfail"} :
        /\ clock + d + 1 <= MaxClockIO
        /\ CallWith(k, t, failed, d, io)

TickIO ==
    /\ clock < MaxClockIO
    /\ Tick

\* line 264 in another process or thread: open(cache_file, 'w') has
\* truncated the file and the text is not written yet
Truncate ==
    \E k \in Keys :
        /\ store[k] # File(clock, EmptyText)
        /\ store' = [store EXCEPT ![k] = File(clock, EmptyText)]
        /\ UNCHANGED <<clock, last, prev>>
        /\ UNCHANGED <<jvars, dvars, mvars, xvars>>

CacheNextIO == CallIO \/ TickIO \/ Truncate

SpecIO == Init /\ [][CacheNextIO]_vars

(***************************************************************************)
(* Claims about the cache                                                  *)
(***************************************************************************)
\* two consecutive calls with the same cache file and the same TTL > 0
SameKeyPair ==
    /\ prev.valid /\ last.valid
    /\ prev.key = last.key /\ prev.ttl = last.ttl /\ prev.ttl > 0

\* the first of them invoked the remote operation and got a response
FirstFetched == prev.invoked /\ prev.outcome = "return"

\* C1: of two consecutive ccapi calls with the same cache key and the same
\* TTL t > 0, the first having fetched the response, the second does not
\* invoke the remote operation (it returns, answered from the entry) when it
\* starts less than t after the first ended, and invokes the remote
\* operation again when it starts more than t after the first ended.
C1_CacheIdempotence ==
    (SameKeyPair /\ FirstFetched) =>
        /\ (last.now - prev.end < prev.ttl) =>
              (~last.invoked /\ last.outcome = "return")
        /\ (last.now - prev.end > prev.ttl) => last.invoked

C1_Witness ==
    /\ SameKeyPair /\ FirstFetched
    /\ last.now - prev.end < prev.ttl
    /\ ~last.invoked /\ last.outcome = "return"

\* C2: a ccapi call with TTL <= 0 always invokes the remote operation, also
\* when the store held an entry for its key, and leaves every cache entry
\* either as it was before the call or removed: none is created or rewritten.
C2_CacheBypass ==
    (last.valid /\ last.ttl <= 0) =>
        /\ last.invoked
        /\ \A k \in Keys : store[k] = NoFile \/ store[k] = last.pre[k]

C2_Witness ==
    /\ last.valid /\ last.ttl <= 0
    /\ last.pre[last.key].exists
    /\ last.invoked /\ last.outcome = "return"

\* C3: a call whose remote invocation raised ClientError ends through
\* fatal('unable to <method>: ..') with no result and leaves no entry for
\* its key, and the next call with that key invokes the remote operation.
C3_FailedFetchNotCached ==
    /\ (last.valid /\ last.failed) =>
          /\ last.outcome = "fatal"
          /\ last.msg = FatalMsg(Method(last.key))
          /\ last.result = NoneVal
          /\ ~store[last.key].exists
    /\ (prev.valid /\ prev.failed /\ last.valid /\ last.key = prev.key) =>
          last.invoked

C3_Witness ==
    /\ prev.valid /\ prev.failed /\ prev.outcome = "fatal"
    /\ last.valid /\ last.key = prev.key /\ last.invoked

\* C4: a call whose remote operation does not fail returns a result, whatever
\* happens to the cache file (corrupt, removed between the existence check
\* and the read, not writable).
C4_CacheIoNeverAborts ==
    (last.valid /\ ~last.failed) => last.outcome = "return"

(***************************************************************************)
(* Dicts, strings and the path evaluator used by cc                        *)
(* A string value is Str(s) with s a sequence of characters.               *)
(***************************************************************************)
DictV(d) == [t |-> "dict", v |-> d]
ListV(l) == [t |-> "list", v |-> l]
EmptyDict == [f \in {} |-> NoneVal]

\* dict.get(f)
Get(d, f) == IF f \in DOMAIN d THEN d[f] ELSE NoneVal

\* d.update(e)
Update(d, e) ==
    [f \in (DOMAIN d) \cup (DOMAIN e) |-> IF f \in DOMAIN e THEN e[f] ELSE d[f]]

\* a record of the working data: a value and the identity of its object
Rec(id, d) == [id |-> id, d |-> d]

\* jq(query, data) for a dotted path, given as its sequence of names
RECURSIVE jq(_, _)
jq(path, val) ==
    IF path = <<>> THEN val
    ELSE IF val.t = "dict" /\ Head(path) \in DOMAIN val.v
         THEN jq(Tail(path), val.v[Head(path)])
         ELSE NoneVal

\* '|'.join(parts)
RECURSIVE JoinBar(_)
JoinBar(parts) ==
    IF Len(parts) = 0 THEN <<>>
    ELSE IF Len(parts) = 1 THEN parts[1]
    ELSE parts[1] \o <<"|">> \o JoinBar(Tail(parts))

\* the order in which the service lists the fields of its responses
FieldOrder == <<"ResponseMetadata", "count", "items", "detail", "more",
                "id", "name", "v", "w", "_join_key">>

\* the fields of d, in the order a loop over d meets them
FieldsIn(d) == SelectSeq(FieldOrder, LAMBDA f : f \in DOMAIN d)

(***************************************************************************)
(* The filter of cc, lines 296-304                                         *)
(* re.match('.*%s.*' % filter_pattern, v): the pattern is a sequence of    *)
(* characters in which "|" is alternation; "DOTSTAR" stands for '.*'.      *)
(***************************************************************************)
\* '.*%s.*' % filter_pattern
WrapPattern(pattern) == <<"DOTSTAR">> \o pattern \o <<"DOTSTAR">>

\* the alternatives of a regular expression: split at every "|"
RECURSIVE Branches(_, _)
Branches(regex, cur) ==
    IF regex = <<>> THEN <<cur>>
    ELSE IF Head(regex) = "|" THEN <<cur>> \o Branches(Tail(regex), <<>>)
    ELSE Branches(Tail(regex), Append(cur, Head(regex)))

\* the rest of text from position n + 1 on
Drop(text, n) == SubSeq(text, n + 1, Len(text))

\* does one alternative match a prefix of text ('.' matches no newline)
RECURSIVE MatchHere(_, _)
MatchHere(branch, text) ==
    IF branch = <<>> THEN TRUE
    ELSE IF Head(branch) = "DOTSTAR"
    THEN \E n \in 0..Len(text) :
            /\ \A i \in 1..n : text[i] # "\n"
            /\ MatchHere(Tail(branch), Drop(text, n))
    ELSE /\ text # <<>>
         /\ Head(text) = Head(branch)
         /\ MatchHere(Tail(branch), Tail(text))

\* re.match(regex, text): some alternative matches at the start of text
ReMatch(regex, text) ==
    LET bs == Branches(regex, <<>>)
    IN  \E b \in 1..Len(bs) : MatchHere(bs[b], text)

\* line 302: the test a record's attribute value has to pass
FilterTest(pattern, v) == ReMatch(WrapPattern(pattern), v)

\* lines 297-304; the value is [raised, data]
Filter(f, dat) ==
    IF dat.islist
    THEN IF \E i \in 1..Len(dat.recs) :
               \/ dat.recs[i].d.t # "dict"
               \/ Get(dat.recs[i].d.v, f.attr).t \notin {"none", "str"}
         THEN [raised |-> TRUE, data |-> dat]
         ELSE [raised |-> FALSE,
               data |-> [islist |-> TRUE,
                         recs |-> SelectSeq(dat.recs, LAMBDA rec :
                            /\ Get(rec.d.v, f.attr) # NoneVal
                            /\ FilterTest(f.pattern, Get(rec.d.v, f.attr).v))]]
    ELSE \* range(len(data)) over a dict, then data[0]
         IF dat.recs[1].d.t = "dict" /\ DOMAIN dat.recs[1].d.v = {}
         THEN [raised |-> FALSE, data |-> [islist |-> TRUE, recs |-> <<>>]]
         ELSE [raised |-> TRUE, data |-> dat]

(***************************************************************************)
(* Working data, lines 281-294                                             *)
(***************************************************************************)
Single(val) == [islist |-> FALSE, recs |-> <<Rec(0, val)>>]
AsData(val) == IF val.t = "list" THEN [islist |-> TRUE, recs |-> val.v]
               ELSE Single(val)

Extract(q, r) ==
    IF q.t = "path" THEN AsData(jq(q.path, DictV(r)))
    ELSE LET lists == SelectSeq(FieldsIn(r), LAMBDA f : r[f].t = "list")
             first == IF lists = <<>> THEN <<>> ELSE r[lists[1]].v
         IN  IF first = <<>> THEN Single(DictV(r))
             ELSE [islist |-> TRUE, recs |-> first]

(***************************************************************************)
(* _join_data, lines 313-348                                               *)
(***************************************************************************)
\* line 324: jd.pop('store_root', join_idx > 0), join_idx counted from 0
StoreRoot(js, idx) ==
    IF js.store_root = "unset" THEN idx - 1 > 0 ELSE js.store_root = "yes"

\* lines 326-329: the values of the join attributes of one record
JoinParts(js, rec) == [p \in 1..Len(js.attrs) |-> jq(js.attrs[p], rec.d)]

\* line 327: join_query.split('.')[-1]
JoinAttr(path) == path[Len(path)]

\* lines 319-332 for one record: the arguments of its secondary call
JoinKwargs(js, rec) ==
    LET parts == JoinParts(js, rec)
    IN  [method |-> js.method,
         args |-> [a \in {JoinAttr(js.attrs[p]) : p \in 1..Len(js.attrs)} |->
                     LET p == CHOOSE p \in 1..Len(js.attrs) :
                                 /\ JoinAttr(js.attrs[p]) = a
                                 /\ \A o \in 1..Len(js.attrs) :
                                      JoinAttr(js.attrs[o]) = a => o <= p
                     IN  parts[p]],
         join_key |-> JoinBar([p \in 1..Len(parts) |-> parts[p].v])]

\* line 330: '|'.join raises unless every part is a string
JoinKeyRaises(js, rec) ==
    \E p \in 1..Len(js.attrs) : JoinParts(js, rec)[p].t # "str"

\* the remote operation of a secondary call
SecRemote(behaviour, kw) ==
    IF kw.method = "get_detail"
    THEN LET how == behaviour.detail[kw.args["id"].v]
         IN  IF how = "fail" THEN [failed |-> TRUE]
             ELSE [failed |-> FALSE,
                   r |-> [ResponseMetadata |-> Str(<<"r">>),
                          detail |-> IF how = "hit"
                                     THEN DictV([v |-> Str(<<"1">>)])
                                     ELSE DictV(EmptyDict)]]
    ELSE [failed |-> FALSE,
          r |-> [ResponseMetadata |-> Str(<<"r">>),
                 more |-> DictV([w |-> Str(<<"2">>)])]]

\* lines 335-338: ccapi(join_method, **jd) in a pool thread, cache missed
Pending == [t |-> "pending"]
Failed == [t |-> "failed"]
SecondaryCall(behaviour, kw) ==
    LET a == SecRemote(behaviour, kw)
    IN  IF a.failed THEN Failed
        ELSE DictV(SetItem(Pop(a.r, "ResponseMetadata"), "_join_key",
                           Str(kw.join_key)))

\* list(EX.map(..)): results are taken in submission order and the first
\* failed call raises in the caller
CollectPartial(results) ==
    IF \E i \in 1..Len(results) : results[i].t = "pending" THEN "wait"
    ELSE "ok"
\* results taken as soon as one call has completed
CollectFirstDone(results) ==
    IF \E i \in 1..Len(results) : results[i].t = "dict" THEN "ok"
    ELSE "wait"
Collect(results) ==
    IF \E i \in 1..Len(results) :
          /\ results[i].t = "failed"
          /\ \A o \in 1..(i - 1) : results[o].t = "dict"
    THEN "fatal"
    ELSE IF \A i \in 1..Len(results) : results[i].t = "dict"
    THEN "ok"
    ELSE "wait"

\* line 343
EntityKeys(d) == SelectSeq(FieldsIn(d), LAMBDA f : f # "_join_key")

\* lines 344-346: what one secondary result contributes to lookup_data
Enrichment(d, store_root) ==
    IF store_root THEN d ELSE d.v[EntityKeys(d.v)[1]]

\* lines 341-346: lookup_data; a later result replaces an earlier one
Lookup(join_data, store_root) ==
    [key \in {join_data[i].v["_join_key"].v : i \in 1..Len(join_data)} |->
        LET i == CHOOSE i \in 1..Len(join_data) :
                    /\ join_data[i].v["_join_key"].v = key
                    /\ \A o \in 1..Len(join_data) :
                         join_data[o].v["_join_key"].v = key => o <= i
        IN  Enrichment(join_data[i], store_root)]

\* line 348 for one record: data[i].update(lookup_data.get(key, {}))
MergeOneReplace(rec, lookup) ==
    LET key == rec.d.v["_join_key"].v
    IN  Rec(rec.id, IF key \in DOMAIN lookup THEN lookup[key]
                    ELSE DictV(EmptyDict))
MergeOne(rec, lookup) ==
    LET key == rec.d.v["_join_key"].v
        e == IF key \in DOMAIN lookup THEN lookup[key] ELSE DictV(EmptyDict)
    IN  Rec(rec.id, DictV(Update(rec.d.v, e.v)))

\* lines 347-348
MergeAllInner(recs, lookup) ==
    LET kept == SelectSeq(recs, LAMBDA rec :
                    /\ rec.d.v["_join_key"].v \in DOMAIN lookup
                    /\ DOMAIN lookup[rec.d.v["_join_key"].v].v # {})
    IN  [i \in 1..Len(kept) |-> MergeOne(kept[i], lookup)]
MergeAll(recs, lookup) == [i \in 1..Len(recs) |-> MergeOne(recs[i], lookup)]

\* lines 341-348 raise on a result without entity or a non-dict enrichment
MergeRaises(join_data, store_root) ==
    \E i \in 1..Len(join_data) :
        ~store_root /\ (\/ EntityKeys(join_data[i].v) = <<>>
                        \/ Enrichment(join_data[i], store_root).t # "dict")

(***************************************************************************)
(* cc, lines 271-360, as the steps of one query                            *)
(***************************************************************************)
Ended(outcome, value, msg) ==
    [outcome |-> outcome, value |-> value, msg |-> msg]

\* lines 274-310: the root call, the working data, the filter, the wrap
CcRoot ==
    /\ ccpc = "start"
    /\ IF svc.rootFail
       THEN /\ ret' = Ended("fatal", NoneVal, FatalMsg(qs.method))
            /\ ccpc' = "done"
            /\ UNCHANGED <<data, listified, work0>>
       ELSE LET r == Pop(svc.root, "ResponseMetadata")
                d0 == Extract(qs.q, r)
                fd == IF qs.f.t = "none"
                      THEN [raised |-> FALSE, data |-> d0]
                      ELSE Filter(qs.f, d0)
                wrap == qs.j.t # "none" /\ ~fd.data.islist
                d1 == [islist |-> fd.data.islist \/ wrap,
                       recs |-> fd.data.recs]
            IN  IF fd.raised
                THEN /\ ret' = Ended("raise", NoneVal, <<"filter">>)
                     /\ ccpc' = "done"
                     /\ UNCHANGED <<data, listified, work0>>
                ELSE /\ data' = d1
                     /\ listified' = wrap
                     /\ work0' = d1
                     /\ ccpc' = IF qs.j.t = "none" THEN "ret" ELSE "submit"
                     /\ UNCHANGED ret
    /\ jidx' = 1
    /\ UNCHANGED <<qs, svc, jkw, jres, before, sawFail>>
    /\ UNCHANGED <<cvars, dvars, mvars, xvars>>

\* lines 315-335: build join_kwargs, mark the records, submit to the pool
JoinSubmit ==
    /\ ccpc = "submit"
    /\ LET js == qs.j.list[jidx]
       IN  IF \E i \in 1..Len(data.recs) : JoinKeyRaises(js, data.recs[i])
           THEN /\ ret' = Ended("raise", NoneVal, <<"join key">>)
                /\ ccpc' = "done"
                /\ UNCHANGED <<data, jkw, jres, before>>
           ELSE /\ jkw' = [i \in 1..Len(data.recs) |->
                             JoinKwargs(js, data.recs[i])]
                /\ data' = [data EXCEPT !.recs =
                             [i \in 1..Len(data.recs) |->
                                Rec(data.recs[i].id,
                                    DictV(SetItem(data.recs[i].d.v, "_join_key",
                                       Str(JoinKwargs(js, data.recs[i]).join_key))))]]
                /\ jres' = [i \in 1..Len(data.recs) |-> Pending]
                /\ before' = data
                /\ ccpc' = "wait"
                /\ UNCHANGED ret
    /\ UNCHANGED <<qs, svc, listified, jidx, work0, sawFail>>
    /\ UNCHANGED <<cvars, dvars, mvars, xvars>>

\* a pool thread runs one secondary call to its end
Worker ==
    /\ ccpc = "wait"
    /\ \E i \in 1..Len(jres) :
        /\ jres[i].t = "pending"
        /\ jres' = [jres EXCEPT ![i] = SecondaryCall(svc, jkw[i])]
        /\ sawFail' = (sawFail \/ SecondaryCall(svc, jkw[i]).t = "failed")
    /\ UNCHANGED <<ccpc, qs, svc, data, listified, jidx, jkw, work0, before,
                   ret>>
    /\ UNCHANGED <<cvars, dvars, mvars, xvars>>

\* line 335: the failure of a secondary call reaches the caller
JoinFail ==
    /\ ccpc = "wait"
    /\ Collect(jres) = "fatal"
    /\ ret' = Ended("fatal", NoneVal, FatalMsg(qs.j.list[jidx].method))
    /\ ccpc' = "done"
    /\ UNCHANGED <<qs, svc, data, listified, jidx, jkw, jres, work0, before,
                   sawFail>>
    /\ UNCHANGED <<cvars, dvars, mvars, xvars>>

\* lines 340-348, then the loop of lines 354-355
JoinMerge ==
    /\ ccpc = "wait"
    /\ Collect(jres) = "ok"
    /\ LET join_data == SelectSeq(jres, LAMBDA x : x.t = "dict")
           store_root == StoreRoot(qs.j.list[jidx], jidx)
       IN  IF MergeRaises(join_data, store_root)
           THEN /\ ret' = Ended("raise", NoneVal, <<"merge">>)
                /\ ccpc' = "done"
                /\ UNCHANGED <<data, jidx>>
           ELSE /\ data' = [data EXCEPT !.recs =
                              MergeAll(data.recs, Lookup(join_data, store_root))]
                /\ jidx' = jidx + 1
                /\ ccpc' = IF jidx = Len(qs.j.list) THEN "ret" ELSE "submit"
                /\ UNCHANGED ret
    /\ UNCHANGED <<qs, svc, listified, jkw, jres, work0, before, sawFail>>
    /\ UNCHANGED <<cvars, dvars, mvars, xvars>>

\* the working list returned as it is
ReturnValueList(wrapped, dat) == dat

\* lines 357-360: a wrapped record is returned unwrapped
ReturnValue(wrapped, dat) ==
    IF wrapped THEN [islist |-> FALSE, recs |-> <<dat.recs[1]>>] ELSE dat

\* lines 357-360
CcReturn ==
    /\ ccpc = "ret"
    /\ ret' = Ended("return", ReturnValue(listified, data), <<>>)
    /\ ccpc' = "done"
    /\ UNCHANGED <<qs, svc, data, listified, jidx, jkw, jres, work0, before,
                   sawFail>>
    /\ UNCHANGED <<cvars, dvars, mvars, xvars>>


(***************************************************************************)
(* Queries: the inputs of cc                                               *)
(***************************************************************************)
MaxRecs == 2        \* longest list of root records of a join query
MaxFilterRecs == 2  \* longest list of records of a filter query
MaxName == 2        \* longest attribute value of a filter query

PathQ(path) == [t |-> "path", path |-> path]
FilterF(attr, pattern) == [t |-> "filter", attr |-> attr, pattern |-> pattern]
Joins(list) == [t |-> "joins", list |-> list]
Query(method, q, f, j) == [method |-> method, q |-> q, f |-> f, j |-> j]

\* every list of at most n records of the given kinds, as distinct objects
RecLists(kinds, n) ==
    {[i \in 1..Len(l) |-> Rec(i, DictV(l[i]))] :
        l \in UNION {[1..m -> kinds] : m \in 0..n}}

Items(recs) ==
    [ResponseMetadata |-> Str(<<"r">>), count |-> Str(<<"n">>),
     items |-> ListV(recs)]

JoinVals == {<<"a">>, <<"b">>}
JoinRecKinds ==
    {[id |-> Str(x)] : x \in JoinVals} \cup {[name |-> Str(<<"a">>)]}
JoinRoots ==
    {Items(l) : l \in RecLists(JoinRecKinds, MaxRecs)}
    \cup {[ResponseMetadata |-> Str(<<"r">>), id |-> Str(<<"a">>)]}

\* j: (join_method, join_attrs, {store_root}) tuples
J1(sr) == [method |-> "get_detail", attrs |-> << <<"id">> >>, store_root |-> sr]
J2 == [method |-> "get_more", attrs |-> << <<"v">> >>, store_root |-> "unset"]
JoinLists ==
    {<<J1(sr)>> : sr \in {"unset", "yes", "no"}}
    \cup {<<J1(sr), J2>> : sr \in {"unset", "yes", "no"}}

JoinStart ==
    /\ ccpc = "start"
    /\ data = NoneVal
    /\ listified = FALSE
    /\ jidx = 0
    /\ jkw = <<>>
    /\ jres = <<>>
    /\ work0 = NoneVal
    /\ before = NoneVal
    /\ sawFail = FALSE
    /\ ret = NoneVal

JoinInit ==
    /\ CacheInit
    /\ JoinStart
    /\ DiffIdle
    /\ CmdIdle
    /\ RestIdle
    /\ qs \in {Query("list_items", q, NoneVal, Joins(j)) :
                 q \in {NoneVal, PathQ(<<"items">>)}, j \in JoinLists}
    /\ svc \in {[rootFail |-> rf, root |-> root, detail |-> det] :
                 rf \in BOOLEAN, root \in JoinRoots,
                 det \in [JoinVals -> {"fail", "hit", "empty"}]}

JoinNext ==
    CcRoot \/ JoinSubmit \/ Worker \/ JoinFail \/ JoinMerge \/ CcReturn

SpecJoin == JoinInit /\ [][JoinNext]_vars

NameChars == {"a", "b", "x"}
Names == UNION {[1..n -> NameChars] : n \in 1..MaxName}
FilterRecKinds == {[name |-> Str(x)] : x \in Names} \cup {[id |-> Str(<<"a">>)]}
Patterns == {<<"a">>, <<"a", "b">>, <<"a", "|", "b">>}

FilterInit ==
    /\ CacheInit
    /\ JoinStart
    /\ DiffIdle
    /\ CmdIdle
    /\ RestIdle
    /\ qs \in {Query("list_repositories", NoneVal, FilterF("name", p), NoneVal) :
                 p \in Patterns}
    /\ svc \in {[rootFail |-> FALSE, root |-> Items(l)] :
                 l \in RecLists(FilterRecKinds, MaxFilterRecs)}

FilterNext == CcRoot \/ CcReturn

SpecFilter == FilterInit /\ [][FilterNext]_vars

(***************************************************************************)
(* Claims about the query/filter/join engine                               *)
(***************************************************************************)
Returned == ccpc = "done" /\ ret.outcome = "return"

\* C5: when a query with joins returns, the returned list has the length of
\* the working list before the joins and holds the same records (the same
\* objects) in the same order, however many secondary results matched.
C5_JoinCompleteness ==
    (Returned /\ qs.j.t = "joins" /\ ~sawFail) =>
        /\ Len(ret.value.recs) = Len(work0.recs)
        /\ \A i \in 1..Len(work0.recs) : ret.value.recs[i].id = work0.recs[i].id

C5_Witness ==
    /\ Returned /\ qs.j.t = "joins" /\ ~sawFail
    /\ Len(ret.value.recs) = 2
    /\ "v" \in DOMAIN ret.value.recs[1].d.v
    /\ "v" \notin DOMAIN ret.value.recs[2].d.v

\* a join step has merged its enrichments into the working list
StepMerged ==
    /\ qs.j.t = "joins" /\ jidx > 1
    /\ ccpc \in {"submit", "ret"} \/ Returned

\* what the service answers for record i of the list before the last step
C6_Answer(i) ==
    SecRemote(svc, JoinKwargs(qs.j.list[jidx - 1], before.recs[i])).r
C6_Key(i) == Str(JoinKwargs(qs.j.list[jidx - 1], before.recs[i]).join_key)
\* the fields that answer contributes to the record
C6_Enrich(i) ==
    LET body == Pop(C6_Answer(i), "ResponseMetadata")
    IN  IF StoreRoot(qs.j.list[jidx - 1], jidx - 1)
        THEN SetItem(body, "_join_key", C6_Key(i))
        ELSE body[EntityKeys(body)[1]].v

\* C6 as amended: after a join step every root record is kept; a record
\* whose enrichment is empty has exactly the fields it had before the join
\* plus the reserved _join_key field, and a record whose enrichment is not
\* empty has, besides those, the fields of its enrichment.
C6_JoinLeavesUnmatched ==
    StepMerged =>
        /\ Len(data.recs) = Len(before.recs)
        /\ \A i \in 1..Len(before.recs) :
            LET was == SetItem(before.recs[i].d.v, "_join_key", C6_Key(i))
                now == data.recs[i].d.v
                e == C6_Enrich(i)
            IN  /\ data.recs[i].id = before.recs[i].id
                /\ (DOMAIN e = {}) => now = was
                /\ (DOMAIN e # {}) =>
                      /\ DOMAIN now = (DOMAIN was) \cup (DOMAIN e)
                      /\ \A f \in DOMAIN e : now[f] = e[f]
                      /\ \A f \in (DOMAIN was) \ (DOMAIN e) : now[f] = was[f]

\* roots [{id:a},{id:b}], the secondary result of a carrying v, that of b
\* carrying nothing
C6_Witness ==
    /\ StepMerged /\ jidx = 2
    /\ Len(before.recs) = 2
    /\ DOMAIN C6_Enrich(1) # {}
    /\ DOMAIN C6_Enrich(2) = {}
    /\ data.recs[1].d.v = [id |-> Str(<<"a">>), _join_key |-> Str(<<"a">>),
                           v |-> Str(<<"1">>)]
    /\ data.recs[2].d.v = [id |-> Str(<<"b">>), _join_key |-> Str(<<"b">>)]

\* C6 as claimed: a record without a matching enrichment is left exactly as
\* it was before the join step, no field added.
C6_UnmatchedUnmodified ==
    StepMerged =>
        \A i \in 1..Len(before.recs) :
            (DOMAIN C6_Enrich(i) = {}) => data.recs[i].d.v = before.recs[i].d.v

\* C7: if a secondary call of a join step failed, the query ends through
\* fatal with the remote-call error of the join method and returns nothing.
C7_FailFastJoin ==
    (ccpc = "done" /\ sawFail) =>
        /\ ret.outcome = "fatal"
        /\ ret.value = NoneVal
        /\ ret.msg = FatalMsg(qs.j.list[jidx].method)

C7_Witness ==
    /\ ccpc = "done" /\ sawFail /\ ret.outcome = "fatal"
    /\ \E i \in 1..Len(jres) : jres[i].t = "dict"

\* does text contain a match of the pattern (re.search)
Contains(pattern, text) ==
    \E o \in 0..Len(text) : ReMatch(pattern, Drop(text, o))

\* the list the filter is applied to
FilterInput == Extract(qs.q, Pop(svc.root, "ResponseMetadata")).recs

\* C8: with filter 'attr=pattern' cc returns exactly the records of the
\* working list whose attribute is present and contains a match of the
\* pattern, in their order.
C8_FilterCorrectness ==
    (Returned /\ qs.f.t = "filter") =>
        ret.value.recs = SelectSeq(FilterInput, LAMBDA rec :
            /\ Get(rec.d.v, qs.f.attr) # NoneVal
            /\ Contains(qs.f.pattern, Get(rec.d.v, qs.f.attr).v))

(***************************************************************************)
(* print_diff: the structural diff renderer                                *)
(*                                                                         *)
(* A text is the sequence of its lines (splitlines); a line is its leading *)
(* blanks, its stripped body (a sequence of characters) and its trailing   *)
(* blanks.  difflib._mdiff(from, to, context=3) is modelled as the library *)
(* computes it: SequenceMatcher blocks, Differ.compare, the line iterator, *)
(* the pair iterator and the context filter.                               *)
(***************************************************************************)
DLine(lead, body, trail) == [lead |-> lead, body |-> body, trail |-> trail]

\* line.lstrip().rstrip()
Strip(line) == line.body

\* leading() taken to find nothing
leadingNone(line) == <<>>

\* leading(line): the blanks a line starts with; a line of blanks only is
\* all leading
leading(line) ==
    [i \in 1..(line.lead + (IF line.body = <<>> THEN line.trail ELSE 0))
        |-> " "]

\* s[i] and s[lo:hi] with Python's 0-based, half-open indexing
Elem(s, i) == s[i + 1]

\* SequenceMatcher.find_longest_match, no junk: the longest block that
\* a[alo:ahi] and b[blo:bhi] share, the earliest in a, then the earliest in b
find_longest_match(a, alo, ahi, b, blo, bhi) ==
    LET cands == {m \in (alo..(ahi - 1)) \X (blo..(bhi - 1))
                            \X (1..(ahi - alo)) :
                    /\ m[1] + m[3] <= ahi
                    /\ m[2] + m[3] <= bhi
                    /\ \A t \in 0..(m[3] - 1) :
                          Elem(a, m[1] + t) = Elem(b, m[2] + t)}
    IN  IF cands = {} THEN <<alo, blo, 0>>
        ELSE CHOOSE m \in cands : \A n \in cands :
                \/ m[3] > n[3]
                \/ m[3] = n[3] /\ m[1] < n[1]
                \/ m[3] = n[3] /\ m[1] = n[1] /\ m[2] <= n[2]

\* SequenceMatcher.get_matching_blocks: the blocks in increasing order
\* (adjacent blocks are left unmerged: every use below concatenates them)
RECURSIVE matching_blocks(_, _, _, _, _, _)
matching_blocks(a, alo, ahi, b, blo, bhi) ==
    LET m == find_longest_match(a, alo, ahi, b, blo, bhi)
        i == m[1]
        j == m[2]
        k == m[3]
    IN  IF k = 0 THEN <<>>
        ELSE (IF alo < i /\ blo < j
                THEN matching_blocks(a, alo, i, b, blo, j) ELSE <<>>)
             \o <<m>>
             \o (IF i + k < ahi /\ j + k < bhi
                   THEN matching_blocks(a, i + k, ahi, b, j + k, bhi)
                   ELSE <<>>)

get_matching_blocks(a, b) ==
    matching_blocks(a, 0, Len(a), b, 0, Len(b)) \o <<<<Len(a), Len(b), 0>>>>

\* SequenceMatcher.get_opcodes
RECURSIVE opcodes(_, _, _)
opcodes(blocks, i, j) ==
    IF blocks = <<>> THEN <<>>
    ELSE LET ai == Head(blocks)[1]
             bj == Head(blocks)[2]
             size == Head(blocks)[3]
             tag == IF i < ai /\ j < bj THEN "replace"
                    ELSE IF i < ai THEN "delete"
                    ELSE IF j < bj THEN "insert" ELSE ""
         IN  (IF tag # ""
                THEN <<[tag |-> tag, i1 |-> i, i2 |-> ai, j1 |-> j,
                        j2 |-> bj]>>
                ELSE <<>>)
             \o (IF size > 0
                   THEN <<[tag |-> "equal", i1 |-> ai, i2 |-> ai + size,
                           j1 |-> bj, j2 |-> bj + size]>>
                   ELSE <<>>)
             \o opcodes(Tail(blocks), ai + size, bj + size)

get_opcodes(a, b) == opcodes(get_matching_blocks(a, b), 0, 0)

\* SequenceMatcher.ratio is 2.0 * matches / length: the two numbers
RECURSIVE SumSizes(_)
SumSizes(blocks) ==
    IF blocks = <<>> THEN 0 ELSE Head(blocks)[3] + SumSizes(Tail(blocks))

matches(a, b) == SumSizes(get_matching_blocks(a, b))

\* Differ._fancy_replace: cutoff = 0.75, that is 2 * matches / length >= 3/4
Close(x, y) == 8 * matches(x, y) >= 3 * (Len(x) + Len(y))

\* ratio(x1, y1) > ratio(x2, y2)
RatioGt(x1, y1, x2, y2) ==
    matches(x1, y1) * (Len(x2) + Len(y2)) > matches(x2, y2) * (Len(x1) + Len(y1))

RatioEq(x1, y1, x2, y2) ==
    matches(x1, y1) * (Len(x2) + Len(y2)) = matches(x2, y2) * (Len(x1) + Len(y1))

\* a line of ndiff output: its two-character tag and its text
NLine(tag, text) == [tag |-> tag, text |-> text]

\* Differ._dump
dump(tag, x, lo, hi) == [i \in 1..(hi - lo) |-> NLine(tag, Elem(x, lo + i - 1))]

\* Differ._qformat: a '?' line follows a side only if its tags are not all
\* blank, that is if a character of that side was replaced, deleted (left)
\* or inserted (right)
qformat(aelt, belt) ==
    LET ops == get_opcodes(aelt, belt)
        atags == \E n \in 1..Len(ops) : ops[n].tag \in {"replace", "delete"}
        btags == \E n \in 1..Len(ops) : ops[n].tag \in {"replace", "insert"}
    IN  <<NLine("-", aelt)>> \o (IF atags THEN <<NLine("?", <<>>)>> ELSE <<>>)
        \o <<NLine("+", belt)>> \o (IF btags THEN <<NLine("?", <<>>)>> ELSE <<>>)

\* Differ._plain_replace
plain_replace(a, alo, ahi, b, blo, bhi) ==
    IF bhi - blo < ahi - alo
      THEN dump("+", b, blo, bhi) \o dump("-", a, alo, ahi)
      ELSE dump("-", a, alo, ahi) \o dump("+", b, blo, bhi)

\* Differ._fancy_replace and Differ._fancy_helper
RECURSIVE fancy_replace(_, _, _, _, _, _)
RECURSIVE fancy_helper(_, _, _, _, _, _)
fancy_replace(a, alo, ahi, b, blo, bhi) ==
    LET pairs == ((blo..(bhi - 1)) \X (alo..(ahi - 1)))
        \* the loops run j outside and i inside: <<j, i>> in that order
        Earlier(p, q) == p[1] < q[1] \/ (p[1] = q[1] /\ p[2] <= q[2])
        eqs == {p \in pairs : Elem(a, p[2]) = Elem(b, p[1])}
        close == {p \in pairs : /\ Elem(a, p[2]) # Elem(b, p[1])
                                /\ Close(Elem(a, p[2]), Elem(b, p[1]))}
        best == CHOOSE p \in close : \A q \in close :
                   \/ RatioGt(Elem(a, p[2]), Elem(b, p[1]),
                              Elem(a, q[2]), Elem(b, q[1]))
                   \/ /\ RatioEq(Elem(a, p[2]), Elem(b, p[1]),
                                 Elem(a, q[2]), Elem(b, q[1]))
                      /\ Earlier(p, q)
        eq == CHOOSE p \in eqs : \A q \in eqs : Earlier(p, q)
        sync == IF close # {} THEN best ELSE eq
        best_i == sync[2]
        best_j == sync[1]
    IN  IF close = {} /\ eqs = {}
          THEN plain_replace(a, alo, ahi, b, blo, bhi)
          ELSE fancy_helper(a, alo, best_i, b, blo, best_j)
               \o (IF close # {}
                     THEN qformat(Elem(a, best_i), Elem(b, best_j))
                     ELSE <<NLine(" ", Elem(a, best_i))>>)
               \o fancy_helper(a, best_i + 1, ahi, b, best_j + 1, bhi)

fancy_helper(a, alo, ahi, b, blo, bhi) ==
    IF alo < ahi
      THEN IF blo < bhi THEN fancy_replace(a, alo, ahi, b, blo, bhi)
           ELSE dump("-", a, alo, ahi)
      ELSE IF blo < bhi THEN dump("+", b, blo, bhi) ELSE <<>>

\* Differ.compare (difflib.ndiff)
RECURSIVE compare(_, _, _)
compare(a, b, ops) ==
    IF ops = <<>> THEN <<>>
    ELSE LET o == Head(ops)
         IN  (CASE o.tag = "replace" ->
                     fancy_replace(a, o.i1, o.i2, b, o.j1, o.j2)
                [] o.tag = "delete" -> dump("-", a, o.i1, o.i2)
                [] o.tag = "insert" -> dump("+", b, o.j1, o.j2)
                [] o.tag = "equal" -> dump(" ", a, o.i1, o.i2))
             \o compare(a, b, Tail(ops))

ndiff(a, b) == compare(a, b, get_opcodes(a, b))

\* a line number, or the blank '' of a side that has no line
BlankNo == [t |-> "blank"]
No(n) == [t |-> "no", n |-> n]

\* one side of an aligned row: (number, text); mark is the \0 .. \1 markup
Side(no, text, mark) == [no |-> no, text |-> text, mark |-> mark]
NoSide == [no |-> [t |-> "none"]]
BlankSide == Side(BlankNo, <<"\n">>, "")

\* an aligned row (from, to, changed) and the separator row
Row(from, to, changed) == [sep |-> FALSE, from |-> from, to |-> to,
                           changed |-> changed]
Separator == [sep |-> TRUE]

\* _mdiff._make_line: the text of an added or deleted empty line is ' '
make_line(line, format_key, n) ==
    IF format_key \in {"+", "-"}
      THEN Side(No(n), IF line.text = <<>> THEN <<" ">> ELSE line.text,
                format_key)
      ELSE Side(No(n), line.text, format_key)

\* the first characters of the next four lines, 'X' past the end
Ahead(lines) ==
    [i \in 1..4 |-> IF i <= Len(lines) THEN lines[i].tag ELSE "X"]

StartsWith(s, p) == \A i \in 1..Len(p) : s[i] = p[i]

After(lines, n) == SubSeq(lines, n + 1, Len(lines))

\* the blank rows owed when an add or delete block is left
Blanks(n) ==
    IF n < 0 THEN [i \in 1..(0 - n) |-> Row(NoSide, BlankSide, TRUE)]
    ELSE [i \in 1..n |-> Row(BlankSide, NoSide, TRUE)]

\* _mdiff._line_iterator: pend is num_blanks_pending, nf and nt are
\* num_lines
RECURSIVE line_iterator(_, _, _, _)
line_iterator(lines, pend, nf, nt) ==
    LET s == Ahead(lines)
        l1 == lines[1]
    IN  CASE StartsWith(s, <<"X">>) -> Blanks(pend)
          [] StartsWith(s, <<"-", "?", "+", "?">>) ->
                <<Row(make_line(l1, "?", nf + 1),
                      make_line(lines[3], "?", nt + 1), TRUE)>>
                \o line_iterator(After(lines, 4), pend, nf + 1, nt + 1)
          [] StartsWith(s, <<"-", "-", "+", "+">>) ->
                <<Row(make_line(l1, "-", nf + 1), NoSide, TRUE)>>
                \o line_iterator(After(lines, 1), pend - 1, nf + 1, nt)
          [] /\ ~StartsWith(s, <<"-", "-", "+", "+">>)
             /\ \/ StartsWith(s, <<"-", "-", "?", "+">>)
                \/ StartsWith(s, <<"-", "-", "+">>)
                \/ StartsWith(s, <<"-", " ">>) ->
                Blanks(pend - 1)
                \o <<Row(make_line(l1, "-", nf + 1), NoSide, TRUE)>>
                \o line_iterator(After(lines, 1), 0, nf + 1, nt)
          [] StartsWith(s, <<"-", "+", "?">>) ->
                <<Row(make_line(l1, "", nf + 1),
                      make_line(lines[2], "?", nt + 1), TRUE)>>
                \o line_iterator(After(lines, 3), pend, nf + 1, nt + 1)
          [] /\ StartsWith(s, <<"-", "?", "+">>)
             /\ ~StartsWith(s, <<"-", "?", "+", "?">>) ->
                <<Row(make_line(l1, "?", nf + 1),
                      make_line(lines[3], "", nt + 1), TRUE)>>
                \o line_iterator(After(lines, 3), pend, nf + 1, nt + 1)
          [] /\ StartsWith(s, <<"-">>)
             /\ ~StartsWith(s, <<"-", "?", "+">>)
             /\ ~StartsWith(s, <<"-", "+", "?">>)
             /\ ~StartsWith(s, <<"-", "-", "?", "+">>)
             /\ ~StartsWith(s, <<"-", "-", "+">>)
             /\ ~StartsWith(s, <<"-", " ">>) ->
                <<Row(make_line(l1, "-", nf + 1), NoSide, TRUE)>>
                \o line_iterator(After(lines, 1), pend - 1, nf + 1, nt)
          [] StartsWith(s, <<"+", "-", "-">>) ->
                <<Row(NoSide, make_line(l1, "+", nt + 1), TRUE)>>
                \o line_iterator(After(lines, 1), pend + 1, nf, nt + 1)
          [] /\ ~StartsWith(s, <<"+", "-", "-">>)
             /\ \/ StartsWith(s, <<"+", " ">>)
                \/ StartsWith(s, <<"+", "-">>) ->
                Blanks(pend + 1)
                \o <<Row(NoSide, make_line(l1, "+", nt + 1), TRUE)>>
                \o line_iterator(After(lines, 1), 0, nf, nt + 1)
          [] /\ StartsWith(s, <<"+">>)
             /\ ~StartsWith(s, <<"+", " ">>)
             /\ ~StartsWith(s, <<"+", "-">>) ->
                <<Row(NoSide, make_line(l1, "+", nt + 1), TRUE)>>
                \o line_iterator(After(lines, 1), pend + 1, nf, nt + 1)
          [] StartsWith(s, <<" ">>) ->
                <<Row(make_line(l1, "", nf + 1),
                      make_line(l1, "", nt + 1), FALSE)>>
                \o line_iterator(After(lines, 1), pend, nf + 1, nt + 1)

\* _mdiff._line_pair_iterator: the from lines and the to lines are queued
\* apart and leave in pairs; what has no partner at the end is dropped
Sides(rows, side) ==
    LET has == SelectSeq(rows, LAMBDA r :
                  IF side = "from" THEN r.from.no.t # "none"
                  ELSE r.to.no.t # "none")
    IN  [i \in 1..Len(has) |->
            [line |-> IF side = "from" THEN has[i].from ELSE has[i].to,
             found_diff |-> has[i].changed]]

line_pair_iterator(rows) ==
    LET fromlines == Sides(rows, "from")
        tolines == Sides(rows, "to")
        n == IF Len(fromlines) < Len(tolines) THEN Len(fromlines)
             ELSE Len(tolines)
    IN  [i \in 1..n |-> Row(fromlines[i].line, tolines[i].line,
                            fromlines[i].found_diff \/ tolines[i].found_diff)]

\* a changed row that does not start the count of unchanged rows again
RECURSIVE TrailNoReset(_, _, _)
TrailNoReset(rows, left, context) ==
    IF left = 0 \/ rows = <<>> THEN 0
    ELSE 1 + TrailNoReset(Tail(rows), left - 1, context)

\* _mdiff's context loop: the rows that follow a change, until `left`
\* unchanged rows in a row went by
RECURSIVE Trail(_, _, _)
Trail(rows, left, context) ==
    IF left = 0 \/ rows = <<>> THEN 0
    ELSE 1 + Trail(Tail(rows),
                   IF Head(rows).changed THEN context - 1 ELSE left - 1,
                   context)

FirstChanged(rows) ==
    IF \E i \in 1..Len(rows) : rows[i].changed
      THEN CHOOSE i \in 1..Len(rows) :
              rows[i].changed /\ \A k \in 1..(i - 1) : ~rows[k].changed
      ELSE 0

\* context = None: every row is yielded
context_rows_all(rows, context) == rows

\* context is the argument plus one, as the loop has it
RECURSIVE context_rows(_, _)
context_rows(rows, context) ==
    LET index == FirstChanged(rows)
        after == After(rows, index)
        n == Trail(after, context - 1, context)
    IN  IF index = 0 THEN <<>>
        ELSE (IF index > context
                THEN <<Separator>> \o SubSeq(rows, index - context + 1, index)
                ELSE SubSeq(rows, 1, index))
             \o SubSeq(after, 1, n)
             \o context_rows(After(after, n), context)

\* difflib._mdiff(fromlines, tolines, context)
mdiff(fromlines, tolines, context) ==
    context_rows(line_pair_iterator(
                     line_iterator(ndiff(fromlines, tolines), 0, 0, 0)),
                 context + 1)

\* the context argument print_diff passes to difflib._mdiff
Context == 3

\* print_line: a rendered row; the \0 .. \1 markup is removed from the text
print_line(code, from_lc, to_lc, line) ==
    [code |-> code, from_lc |-> from_lc, to_lc |-> to_lc, line |-> line]

\* the rule that stands for an elided region
Rule == print_line("rule", BlankNo, BlankNo, <<>>)

\* the comments looked up under any document's name
AnnotationsAnyName(name, comments, to_lc) ==
    IF to_lc.t = "no"
         /\ \E d \in DOMAIN comments : to_lc.n \in DOMAIN comments[d]
      THEN LET d == CHOOSE d \in DOMAIN comments :
                       to_lc.n \in DOMAIN comments[d]
               cd == comments[d][to_lc.n]
           IN  [i \in 1..Len(cd) |-> [code |-> "comment", from_lc |-> BlankNo,
                                       to_lc |-> to_lc, line |-> cd[i]]]
      ELSE <<>>

\* the comments printed as added lines of the destination
AnnotationsAsLines(name, comments, to_lc) ==
    IF name \in DOMAIN comments /\ to_lc.t = "no"
         /\ to_lc.n \in DOMAIN comments[name]
      THEN LET cd == comments[name][to_lc.n]
           IN  [i \in 1..Len(cd) |-> print_line("+", BlankNo, to_lc, cd[i])]
      ELSE <<>>

\* the rows of the comment table (ptable) under a destination line
Annotations(name, comments, to_lc) ==
    IF name \in DOMAIN comments /\ to_lc.t = "no"
         /\ to_lc.n \in DOMAIN comments[name]
      THEN LET cd == comments[name][to_lc.n]
           IN  [i \in 1..Len(cd) |-> print_line("comment", BlankNo, to_lc,
                                                cd[i])]
      ELSE <<>>

\* the changed flag tested before the blank numbers
RenderRowChangedFirst(row, from_lines, to_lines, name, comments) ==
    IF row.sep THEN <<Rule>>
    ELSE IF row.changed
      THEN <<print_line("-", row.from.no, BlankNo, row.from.text),
             print_line("+", BlankNo, row.to.no, row.to.text)>>
      ELSE <<print_line(" ", row.from.no, row.to.no, row.to.text)>>

\* the body of print_diff's loop: the rows one aligned row is printed as
RenderRow(row, from_lines, to_lines, name, comments) ==
    IF row.sep THEN <<Rule>>
    ELSE LET from_lc == row.from.no
             to_lc == row.to.no
             from_line == IF from_lc.t # "blank"
                            THEN leading(from_lines[from_lc.n]) \o row.from.text
                            ELSE row.from.text
             to_line == IF to_lc.t # "blank"
                          THEN leading(to_lines[to_lc.n]) \o row.to.text
                          ELSE row.to.text
         IN  (IF from_lc.t = "blank"
                THEN <<print_line("+", from_lc, to_lc, to_line)>>
              ELSE IF to_lc.t = "blank"
                THEN <<print_line("-", from_lc, to_lc, from_line)>>
              ELSE IF row.changed
                THEN <<print_line("-", from_lc, BlankNo, from_line),
                       print_line("+", BlankNo, to_lc, to_line)>>
              ELSE <<print_line(" ", from_lc, to_lc, to_line)>>)
             \o Annotations(name, comments, to_lc)

RECURSIVE RenderRows(_, _, _, _, _)
RenderRows(rows, from_lines, to_lines, name, comments) ==
    IF rows = <<>> THEN <<>>
    ELSE RenderRow(Head(rows), from_lines, to_lines, name, comments)
         \o RenderRows(Tail(rows), from_lines, to_lines, name, comments)

\* the aligned rows print_diff computes
Aligned(from_lines, to_lines) ==
    mdiff([i \in 1..Len(from_lines) |-> Strip(from_lines[i])],
          [i \in 1..Len(to_lines) |-> Strip(to_lines[i])], Context)

\* the header line: the name and, if it has comments, how many of its lines
\* have (print_name and print_modified at their defaults)
Header(name, comments) ==
    IF name = "" THEN <<>>
    ELSE <<print_line("name", BlankNo, BlankNo,
                      <<name, IF name \in DOMAIN comments
                                THEN Cardinality(DOMAIN comments[name])
                                ELSE 0>>)>>

(***************************************************************************)
(* print_diff as a step: the texts go in, the rows come out                *)
(***************************************************************************)
MaxLines == 2       \* most lines of a text, the shared context aside

\* the lines texts are made of: a line, a similar line indented, and a
\* line of one blank
DLines == {DLine(0, <<"a", "b", "c", "d">>, 0),
           DLine(1, <<"a", "b", "X", "d">>, 0),
           DLine(1, <<>>, 0)}
Texts == UNION {[1..n -> DLines] : n \in 0..MaxLines}

\* lines both texts have around the part that differs, indented or not
Shared(n, lead) == [i \in 1..n |-> DLine(lead, <<"k">>, lead)]
Pads == {<<0, 0>>, <<Context + 1, 0>>, <<Context + 1, 1>>}

\* a comment overlay: document name -> destination line -> comments
Overlays == {<<>>,
             [f \in {"f"} |-> [n \in {1, 2} |-> IF n = 1 THEN <<"c1", "c2">>
                                                ELSE <<"c3">>]],
             [f \in {"g"} |-> [n \in {1} |-> <<"c1">>]]}

DiffInit ==
    /\ CacheInit
    /\ JoinIdle
    /\ CmdIdle
    /\ RestIdle
    /\ dpc = "ready"
    /\ \E pad \in Pads, f \in Texts, t \in Texts :
          /\ from_txt = Shared(pad[1], 0) \o f \o Shared(pad[1], 0)
          /\ to_txt = Shared(pad[1], pad[2]) \o t \o Shared(pad[1], pad[2])
    /\ \E o \in Overlays : /\ dcomments = o
                           /\ dname = IF o = <<>> THEN "" ELSE "f"
    /\ diff = <<>>
    /\ out = <<>>

\* print_diff(from_txt, to_txt, name, comments)
PrintDiff ==
    /\ dpc = "ready"
    /\ dpc' = "done"
    /\ diff' = Aligned(from_txt, to_txt)
    /\ out' = Header(dname, dcomments)
              \o RenderRows(diff', from_txt, to_txt, dname, dcomments)
    /\ UNCHANGED <<from_txt, to_txt, dname, dcomments>>
    /\ UNCHANGED <<cvars, jvars, mvars, xvars>>

DiffNext == PrintDiff

SpecDiff == DiffInit /\ [][DiffNext]_vars

(***************************************************************************)
(* Claims on the diff renderer                                             *)
(***************************************************************************)
\* the rows print_diff printed for lines: the header line and the comment
\* tables aside
Printed == SelectSeq(out, LAMBDA r : r.code \notin {"name", "comment"})

\* C9: print_diff(X, X) renders no row at all, the header line aside: an
\* unchanged line is rendered only within 3 lines of a change, and identical
\* texts have no change.
C9_IdenticalRendersNothing ==
    (dpc = "done" /\ from_txt = to_txt) =>
        SelectSeq(out, LAMBDA r : r.code # "name") = <<>>

C9_Witness ==
    /\ dpc = "done"
    /\ from_txt = to_txt
    /\ Len(from_txt) > 2 * Context
    /\ dname \in DOMAIN dcomments

\* C9 as stated: print_diff(X, X) renders one context row per line of X,
\* the i-th with left line number i and right line number i.
C9_IdenticalRendersContext ==
    (dpc = "done" /\ from_txt = to_txt) =>
        /\ Len(Printed) = Len(from_txt)
        /\ \A i \in 1..Len(Printed) :
              /\ Printed[i].code = " "
              /\ Printed[i].from_lc = No(i)
              /\ Printed[i].to_lc = No(i)

\* the rendered rows the classification asks of one aligned row, as
\* <<kind, left number, right number>>
C10_Rows(row) ==
    IF row.from.no = BlankNo THEN <<<<"+", BlankNo, row.to.no>>>>
    ELSE IF row.to.no = BlankNo THEN <<<<"-", row.from.no, BlankNo>>>>
    ELSE IF row.changed THEN <<<<"-", row.from.no, BlankNo>>,
                               <<"+", BlankNo, row.to.no>>>>
    ELSE <<<<" ", row.from.no, row.to.no>>>>

RECURSIVE C10_All(_)
C10_All(rows) ==
    IF rows = <<>> THEN <<>>
    ELSE (IF Head(rows).sep THEN <<>> ELSE C10_Rows(Head(rows)))
         \o C10_All(Tail(rows))

C10_Lines == SelectSeq(out, LAMBDA r : r.code \in {"+", "-", " "})

\* the line numbers an aligned row carries
C10_Numbers(row) ==
    {s.no.n : s \in {s \in {row.from, row.to} : s.no # BlankNo}}

\* C10: the rows rendered for lines are, aligned row by aligned row: one
\* added row (blank, right) for a blank left number, one removed row
\* (left, blank) for a blank right number, a removed row (left, blank) then
\* an added row (blank, right) for a changed pair, one context row (left,
\* right) for an unchanged pair; the numbers are those of the lines,
\* counted from 1, and the row of line 1 carries the number 1.
C10_RowClassification ==
    dpc = "done" =>
        /\ [i \in 1..Len(C10_Lines) |->
               <<C10_Lines[i].code, C10_Lines[i].from_lc, C10_Lines[i].to_lc>>]
              = C10_All(diff)
        /\ \A i \in 1..Len(diff) : ~diff[i].sep =>
              /\ \A n \in C10_Numbers(diff[i]) : n >= 1
              /\ diff[i].from.no = No(1) =>
                    \E k \in 1..Len(out) : /\ out[k].from_lc = No(1)
                                            /\ out[k].code \in {"-", " "}
              /\ diff[i].to.no = No(1) =>
                    \E k \in 1..Len(out) : /\ out[k].to_lc = No(1)
                                            /\ out[k].code \in {"+", " "}

C10_Witness ==
    /\ dpc = "done"
    /\ \E i \in 1..Len(diff) : ~diff[i].sep /\ diff[i].from.no = BlankNo
    /\ \E i \in 1..Len(diff) : ~diff[i].sep /\ diff[i].to.no = BlankNo
    /\ \E i \in 1..Len(diff) : /\ ~diff[i].sep
                                 /\ diff[i].from.no # BlankNo
                                 /\ diff[i].to.no # BlankNo
                                 /\ diff[i].changed
    /\ \E i \in 1..Len(diff) : ~diff[i].sep /\ ~diff[i].changed
    /\ {"+", "-", " "} \subseteq {out[i].code : i \in 1..Len(out)}

\* the original line a rendered row shows: the left document's for a removed
\* row, the right document's for an added or a context row
C11_Original(r) ==
    IF r.code = "-" THEN from_txt[r.from_lc.n] ELSE to_txt[r.to_lc.n]

\* the number of blanks the unstripped line starts with
C11_Lead(line) == IF line.body = <<>> THEN line.lead + line.trail ELSE line.lead

\* C11: the text of every rendered row begins with the leading blanks of the
\* original line of its side and number, and the first character of the
\* line's stripped body follows them at once.
C11_WhitespaceRestored ==
    dpc = "done" =>
        \A k \in 1..Len(out) : out[k].code \in {"+", "-", " "} =>
            LET line == C11_Original(out[k])
                n == C11_Lead(line)
            IN  /\ Len(out[k].line) >= n
                /\ \A i \in 1..n : out[k].line[i] = " "
                /\ line.body # <<>> =>
                      /\ Len(out[k].line) > n
                      /\ out[k].line[n + 1] = line.body[1]

C11_Witness ==
    /\ dpc = "done"
    /\ \E k \in 1..Len(out) : /\ out[k].code = "-"
                              /\ from_txt[out[k].from_lc.n].lead > 0
    /\ \E k \in 1..Len(out) : /\ out[k].code = "+"
                              /\ to_txt[out[k].to_lc.n].lead > 0
    /\ \E k \in 1..Len(out) :
          /\ out[k].code = " "
          /\ to_txt[out[k].to_lc.n].lead > from_txt[out[k].from_lc.n].lead

\* the comments the overlay holds for this document's line n
C12_Entry(n) ==
    IF dname \in DOMAIN dcomments /\ n \in DOMAIN dcomments[dname]
      THEN dcomments[dname][n] ELSE <<>>

\* C12: the comments of the overlay entry (document, n) are rendered, in the
\* order supplied, straight after the row whose right-hand line number is n
\* in that document's diff, and a comment row stands nowhere else.
C12_OverlayPlacement ==
    dpc = "done" =>
        /\ \A k \in 1..Len(out) :
              (out[k].code \in {"+", "-", " "} /\ out[k].to_lc # BlankNo) =>
                 LET cd == C12_Entry(out[k].to_lc.n)
                 IN  /\ Len(out) >= k + Len(cd)
                     /\ \A i \in 1..Len(cd) :
                           /\ out[k + i].code = "comment"
                           /\ out[k + i].line = cd[i]
                     /\ Len(out) > k + Len(cd) =>
                           out[k + Len(cd) + 1].code # "comment"
        /\ \A k \in 1..Len(out) : out[k].code = "comment" =>
              \E j \in 1..(k - 1) :
                 /\ out[j].code \in {"+", " "}
                 /\ out[j].to_lc # BlankNo
                 /\ k - j <= Len(C12_Entry(out[j].to_lc.n))
                 /\ out[k].line = C12_Entry(out[j].to_lc.n)[k - j]
                 /\ \A i \in (j + 1)..k : out[i].code = "comment"

C12_Witness ==
    /\ dpc = "done"
    /\ \E k \in 2..Len(out) :
          /\ out[k - 1].code = "-"
          /\ out[k].code = "+"
          /\ out[k].to_lc = No(1)
          /\ Len(out) >= k + 3
          /\ out[k + 1].code = "comment" /\ out[k + 1].line = "c1"
          /\ out[k + 2].code = "comment" /\ out[k + 2].line = "c2"
          /\ out[k + 3].code = "+" /\ out[k + 3].to_lc = No(2)
          /\ out[Len(out)].code = "comment" /\ out[Len(out)].line = "c3"

\* the whole alignment of the two texts, before the context is cut out
C13_Full ==
    line_pair_iterator(
        line_iterator(ndiff([i \in 1..Len(from_txt) |-> Strip(from_txt[i])],
                            [i \in 1..Len(to_txt) |-> Strip(to_txt[i])]),
                      0, 0, 0))

\* the rows of an alignment that are changed or at most 3 rows away from a
\* changed row
C13_Near(full) ==
    {i \in 1..Len(full) :
        \E j \in 1..Len(full) :
            /\ full[j].changed
            /\ i - j <= Context
            /\ j - i <= Context}

C13_Kept(full, near) ==
    [n \in 1..Cardinality(near) |->
        full[CHOOSE i \in near : Cardinality({j \in near : j <= i}) = n]]

\* the aligned rows print_diff renders, the separator rows aside
C13_Rendered == SelectSeq(diff, LAMBDA r : ~r.sep)

\* how many rows of an alignment carry line n of a side
C13_Count(rows, side, n) ==
    Cardinality({i \in 1..Len(rows) :
        IF side = "from" THEN rows[i].from.no = No(n)
        ELSE rows[i].to.no = No(n)})

C13_Covers(full, rendered) ==
    /\ \A n \in 1..Len(from_txt) : C13_Count(full, "from", n) = 1
    /\ \A n \in 1..Len(to_txt) : C13_Count(full, "to", n) = 1
    /\ rendered = C13_Kept(full, C13_Near(full))
    /\ \A n \in 1..Len(from_txt) : C13_Count(rendered, "from", n) <= 1
    /\ \A n \in 1..Len(to_txt) : C13_Count(rendered, "to", n) <= 1

\* C13: every line of either text is in exactly one row of the whole
\* alignment; the rows print_diff renders are, in order, the rows of it that
\* are changed or at most 3 rows away from a changed row, so that a line is
\* rendered at most once and every added, removed or changed line once.
C13_AlignmentCoverage ==
    dpc = "done" => C13_Covers(C13_Full, C13_Rendered)

C13_Elided(rendered) ==
    /\ \E i \in 1..Len(rendered) : ~rendered[i].changed
    /\ C13_Count(rendered, "from", 1) = 0
    /\ C13_Count(rendered, "to", Len(to_txt)) = 0
    /\ Len(rendered) > 2 * Context

C13_Witness ==
    /\ dpc = "done"
    /\ \E i \in 1..Len(diff) : diff[i].sep
    /\ C13_Elided(C13_Rendered)

C13_AllOnce(rendered) ==
    /\ \A n \in 1..Len(from_txt) : C13_Count(rendered, "from", n) = 1
    /\ \A n \in 1..Len(to_txt) : C13_Count(rendered, "to", n) = 1

\* C13 as stated: every line of the left text and every line of the right
\* text is in exactly one of the aligned rows print_diff renders.
C13_EveryLineOnce ==
    dpc = "done" => C13_AllOnce(C13_Rendered)

(***************************************************************************)
(* fatal, and the commands approve, close and merge                        *)
(***************************************************************************)
\* fatal taken to print the error and come back
fatalReturns(env, msg) ==
    [outcome |-> "return", msg |-> msg, status |-> 0,
     printed |-> <<<<"ERROR", msg>>>>]

\* fatal(msg), env being the value of CCPR_FATAL_RAISE ("" if unset): how the
\* call ends and what it prints before; a message is a tuple of its parts
fatal(env, msg) ==
    IF (IF env = "" THEN "FALSE" ELSE env) = "TRUE"
      THEN [outcome |-> "raise", msg |-> msg, status |-> 0, printed |-> <<>>]
      ELSE [outcome |-> "exit", msg |-> msg, status |-> 1,
            printed |-> <<<<"ERROR", msg>>>>]

\* how a command stands after a call of fatal: ended, unless fatal came back
AfterFatal(f, next) ==
    /\ console' = console \o f.printed
    /\ mret' = [outcome |-> IF f.outcome = "return" THEN "none" ELSE f.outcome,
                msg |-> f.msg, status |-> f.status, fatal |-> f.msg]
    /\ mpc' = IF f.outcome = "return" THEN next ELSE "done"

\* the message of the command's CLOSED guard
ClosedMsg(command) ==
    IF command = "approve" THEN <<"PR already closed, unable to approve">>
    ELSE <<"PR already closed">>

\* merge with its approval guard left out
AfterClosedGuardNoApproval(command) ==
    IF command = "close" THEN "confirm" ELSE "call"

\* what follows the CLOSED guard of a command
AfterClosedGuard(command) ==
    IF command = "merge" THEN "approved"
    ELSE IF command = "close" THEN "confirm" ELSE "call"

\* the state-changing call of a command
StateCall(c) ==
    CASE c.command = "approve" ->
           [method |-> "update_pull_request_approval_state",
            approvalState |-> "APPROVE", cache_secs |-> 20]
      [] c.command = "close" ->
           [method |-> "update_pull_request_status",
            pullRequestStatus |-> "CLOSED", cache_secs |-> 0]
      [] c.command = "merge" ->
           [method |-> <<"merge_pull_request_by", c.strategy>>,
            repositoryName |-> "repo", cache_secs |-> 0]

DoneMsg(command) ==
    CASE command = "approve" -> "PR approved"
      [] command = "close" -> "PR closed"
      [] command = "merge" -> "PR merged"

\* r = pr(id): the pull request is read and shown
CmdPr ==
    /\ mpc = "pr"
    /\ IF cmd.prFail
         THEN /\ AfterFatal(fatal(cmd.env, FatalMsg("get_pull_request")),
                            "closed")
         ELSE /\ console' = Append(console, <<"pr", cmd.status>>)
              /\ mpc' = "closed"
              /\ UNCHANGED mret
    /\ UNCHANGED <<cmd, calls>>
    /\ UNCHANGED <<cvars, jvars, dvars, xvars>>

\* if r['pullRequestStatus'] == 'CLOSED': fatal(...)
CmdClosedGuard ==
    /\ mpc = "closed"
    /\ IF cmd.status = "CLOSED"
         THEN AfterFatal(fatal(cmd.env, ClosedMsg(cmd.command)),
                         AfterClosedGuard(cmd.command))
         ELSE /\ mpc' = AfterClosedGuard(cmd.command)
              /\ UNCHANGED <<console, mret>>
    /\ UNCHANGED <<cmd, calls>>
    /\ UNCHANGED <<cvars, jvars, dvars, xvars>>

\* merge: if jq('evaluation.approved', r) is not True: fatal(...)
CmdApprovedGuard ==
    /\ mpc = "approved"
    /\ IF cmd.approved # "True"
         THEN AfterFatal(fatal(cmd.env, <<"PR not approved">>), "call")
         ELSE /\ mpc' = "call"
              /\ UNCHANGED <<console, mret>>
    /\ UNCHANGED <<cmd, calls>>
    /\ UNCHANGED <<cvars, jvars, dvars, xvars>>

\* close: without confirm the user is asked, and anything but yes returns
CmdConfirm ==
    /\ mpc = "confirm"
    /\ IF ~cmd.confirm /\ cmd.answer # "yes"
         THEN /\ mpc' = "done"
              /\ mret' = [outcome |-> "return", msg |-> <<>>, status |-> 0,
                          fatal |-> mret.fatal]
         ELSE /\ mpc' = "call"
              /\ UNCHANGED mret
    /\ UNCHANGED <<cmd, calls, console>>
    /\ UNCHANGED <<cvars, jvars, dvars, xvars>>

\* the state-changing call through cc, and the closing message
CmdCall ==
    /\ mpc = "call"
    /\ calls' = Append(calls, StateCall(cmd))
    /\ IF cmd.callFail
         THEN AfterFatal(fatal(cmd.env, FatalMsg(StateCall(cmd).method)),
                         "done")
         ELSE /\ console' = Append(console, <<DoneMsg(cmd.command)>>)
              /\ mpc' = "done"
              /\ mret' = [outcome |-> "return", msg |-> <<>>, status |-> 0,
                          fatal |-> mret.fatal]
    /\ UNCHANGED cmd
    /\ UNCHANGED <<cvars, jvars, dvars, xvars>>

\* the commands, the pull requests they meet and the environment
Commands ==
    [command : {"approve", "close", "merge"},
     strategy : {"squash"},
     status : {"OPEN", "CLOSED"},
     approved : {"True", "False", "None"},
     confirm : BOOLEAN,
     answer : {"yes", "no"},
     env : {"", "TRUE", "FALSE", "true"},
     prFail : BOOLEAN,
     callFail : BOOLEAN]

CmdInit ==
    /\ CacheInit
    /\ JoinIdle
    /\ DiffIdle
    /\ RestIdle
    /\ mpc = "pr"
    /\ cmd \in Commands
    /\ calls = <<>>
    /\ console = <<>>
    /\ mret = [outcome |-> "none", msg |-> <<>>, status |-> 0, fatal |-> <<>>]

CmdNext ==
    CmdPr \/ CmdClosedGuard \/ CmdApprovedGuard \/ CmdConfirm \/ CmdCall

SpecCmd == CmdInit /\ [][CmdNext]_vars

(***************************************************************************)
(* Claims on fatal and on the commands                                     *)
(***************************************************************************)
\* the guards of the command let it through, going by the pull request that
\* pr(id) returned
C14_Allowed ==
    /\ cmd.status # "CLOSED"
    /\ cmd.command = "merge" => cmd.approved = "True"

C14_Error ==
    IF cmd.status = "CLOSED"
      THEN IF cmd.command = "approve"
             THEN <<"PR already closed, unable to approve">>
             ELSE <<"PR already closed">>
      ELSE <<"PR not approved">>

\* C14: a state-changing call is issued only if the pull request read is not
\* CLOSED and, for merge, its evaluation is approved; otherwise the command
\* ends with an error and without a call, the error of a closed pull request
\* coming before that of an unapproved one.
C14_CommandGuards ==
    /\ calls # <<>> => C14_Allowed
    /\ Len(calls) <= 1
    /\ (mpc = "done" /\ ~cmd.prFail /\ ~C14_Allowed) =>
          /\ calls = <<>>
          /\ mret.outcome \in {"raise", "exit"}
          /\ mret.msg = C14_Error

C14_Witness ==
    /\ mpc = "done"
    /\ cmd.command = "merge"
    /\ cmd.status = "CLOSED"
    /\ cmd.approved # "True"
    /\ mret.msg = <<"PR already closed">>
    /\ calls = <<>>

\* C15: a call of fatal ends the command there: with CCPR_FATAL_RAISE equal
\* to 'TRUE' by an exception carrying the message and nothing printed,
\* otherwise by the error printed last and exit status 1; a guard's fatal
\* leaves no call issued behind it.
C15_FatalNeverReturns ==
    mret.fatal # <<>> =>
        /\ mpc = "done"
        /\ mret.msg = mret.fatal
        /\ cmd.env = "TRUE" =>
              /\ mret.outcome = "raise"
              /\ \A i \in 1..Len(console) : console[i][1] # "ERROR"
        /\ cmd.env # "TRUE" =>
              /\ mret.outcome = "exit"
              /\ mret.status = 1
              /\ console # <<>>
              /\ console[Len(console)] = <<"ERROR", mret.fatal>>
        /\ (~cmd.prFail /\ ~C14_Allowed) => calls = <<>>
        /\ \A i \in 1..Len(console) :
              console[i][1] \notin {"PR approved", "PR closed", "PR merged"}

C15_Witness ==
    /\ mpc = "done"
    /\ mret.fatal = <<"PR not approved">>
    /\ cmd.env = "true"
    /\ mret.outcome = "exit"
    /\ mret.status = 1

(***************************************************************************)
(* Further claims on the cache                                             *)
(***************************************************************************)
\* the age, at the last call, of the entry the call found stored for its key
C16_Age == last.now - last.pre[last.key].mtime

\* C16: a stored entry is answered from only if its age is strictly less
\* than the TTL; an entry whose age is the TTL or more is removed by the
\* sweep and the remote operation is invoked.
C16_StalenessBoundary ==
    (last.valid /\ last.ttl > 0 /\ last.pre[last.key].exists) =>
        /\ (~last.invoked /\ last.outcome = "return") => C16_Age < last.ttl
        /\ C16_Age >= last.ttl => (last.invoked /\ ~last.present)

(***************************************************************************)
(* Further claims on the query engine                                      *)
(***************************************************************************)
\* the list-valued fields of the raw result of the query, in field order
C17_Lists ==
    LET r == Pop(svc.root, "ResponseMetadata")
    IN  SelectSeq(FieldsIn(r), LAMBDA f : r[f].t = "list")

\* C17: without a result path the working data is the value of the first
\* list-valued field of the raw result, also when that list is empty, and
\* the whole raw result as a single record only if it has no such field.
C17_ExtractionNoPath ==
    (/\ ccpc \in {"submit", "wait", "ret", "done"}
     /\ ~svc.rootFail
     /\ qs.q.t = "none"
     /\ qs.f.t = "none") =>
        LET r == Pop(svc.root, "ResponseMetadata")
        IN  IF C17_Lists # <<>>
              THEN /\ work0.recs = r[C17_Lists[1]].v
                   /\ ~listified
              ELSE /\ work0.recs = <<Rec(0, DictV(r))>>
                   /\ qs.j.t # "none" => listified

\* a root record for which a join source path of the first join step
\* evaluates to nothing
C18_MissingValue ==
    \E i \in 1..Len(work0.recs) : \E p \in 1..Len(qs.j.list[1].attrs) :
        jq(qs.j.list[1].attrs[p], work0.recs[i].d).t = "none"

\* C18: a root record with a missing join-key value does not fail the join:
\* the key is built, the secondary calls are made and, unless one of them
\* fails, the query returns with every root record in its output.
C18_MissingKeyJoins ==
    (/\ ccpc = "done"
     /\ ~svc.rootFail
     /\ qs.j.t = "joins"
     /\ qs.f.t = "none"
     /\ C18_MissingValue) =>
        /\ ~(ret.outcome = "raise" /\ ret.msg = <<"join key">>)
        /\ jkw # <<>>
        /\ ret.outcome = "return" => Len(ret.value.recs) = Len(work0.recs)

\* the working data of the query as extracted, before any wrap
C19_Extracted == Extract(qs.q, Pop(svc.root, "ResponseMetadata"))

\* C19: with joins, a working data that is a single record is joined as a
\* one-element list and that record is returned, not a list; a working data
\* that is a list is returned as a list of the same length, 0 and 1 included.
C19_WrapUnwrap ==
    (/\ ccpc = "done"
     /\ qs.j.t = "joins"
     /\ qs.f.t = "none"
     /\ ret.outcome = "return") =>
        IF C19_Extracted.islist
          THEN /\ ret.value.islist
               /\ Len(ret.value.recs) = Len(C19_Extracted.recs)
          ELSE /\ ~ret.value.islist
               /\ Len(before.recs) = 1
               /\ Len(ret.value.recs) = 1
               /\ ret.value.recs[1].id = C19_Extracted.recs[1].id
               /\ \A f \in DOMAIN C19_Extracted.recs[1].d.v :
                     f \in DOMAIN ret.value.recs[1].d.v

C19_Witness ==
    /\ ccpc = "done"
    /\ qs.j.t = "joins"
    /\ ret.outcome = "return"
    /\ ~C19_Extracted.islist
    /\ ~ret.value.islist
    /\ "v" \in DOMAIN ret.value.recs[1].d.v

\* the fields the completed call i of the step before step jidx contributes
C20_Merged(i) ==
    Enrichment(jres[i], StoreRoot(qs.j.list[jidx - 1], jidx - 1)).v

\* C20: join steps run in the order given and each is a barrier. When step
\* jidx > 1 is about to submit its secondary calls, every call of the step
\* before it has completed and its enrichment is in the working list; the
\* calls in flight are those of step jidx, one per record, and their
\* arguments are read from the records as the step before left them.
C20_JoinBarrier ==
    (qs.j.t = "joins" /\ jidx >= 1) =>
        /\ jidx <= Len(qs.j.list) + 1
        /\ (ccpc = "submit" /\ jidx > 1) =>
              /\ Len(jres) = Len(data.recs)
              /\ \A i \in 1..Len(jres) :
                    /\ jres[i].t = "dict"
                    /\ \A f \in DOMAIN C20_Merged(i) :
                          /\ f \in DOMAIN data.recs[i].d.v
                          /\ data.recs[i].d.v[f] = C20_Merged(i)[f]
        /\ ccpc = "wait" =>
              /\ Len(jkw) = Len(before.recs)
              /\ Len(jres) = Len(jkw)
              /\ \A i \in 1..Len(jkw) :
                    /\ jkw[i] = JoinKwargs(qs.j.list[jidx], before.recs[i])
                    /\ jres[i].t = "dict" =>
                          jres[i] = SecondaryCall(svc, jkw[i])

\* the second step in flight on two records, keyed on the field v that the
\* first step merged, one of its calls completed and one pending
C20_Witness ==
    /\ qs.j.t = "joins"
    /\ ccpc = "wait"
    /\ jidx = 2
    /\ Len(jkw) = 2
    /\ \A i \in 1..2 :
          /\ "v" \notin DOMAIN work0.recs[i].d.v
          /\ jkw[i].method = "get_more"
          /\ jkw[i].args["v"] = before.recs[i].d.v["v"]
    /\ jres[1].t = "pending"
    /\ jres[2].t = "dict"

\* C25: the rows print_diff prints with a comment overlay, the comment
\* tables taken out, are the rows it prints for the same texts with no
\* overlay (header line aside), and the overlay as it is after the rendering
\* still gives the output that was printed.
C25_OverlayAnnotatesOnly ==
    dpc = "done" =>
        /\ Printed = RenderRows(Aligned(from_txt, to_txt), from_txt, to_txt,
                                dname, <<>>)
        /\ out = Header(dname, dcomments)
                 \o RenderRows(diff, from_txt, to_txt, dname, dcomments)

C25_Witness ==
    /\ dpc = "done"
    /\ \E i \in 1..Len(out) : out[i].code = "comment"
    /\ \E i \in 1..Len(out) : out[i].code = "-"
    /\ \E i \in 1..Len(out) : out[i].code = " "
    /\ \E i \in 1..Len(out) : out[i].code = "rule"

\* C26: an entry a call wrote under TTL t is still in the store after any
\* next call (any key, any TTL) that starts less than t after the write: no
\* call's sweep removes an entry that is within the TTL it was written under.
C26_TtlIsolation ==
    (/\ prev.valid /\ last.valid
     /\ prev.ttl > 0 /\ prev.invoked /\ prev.outcome = "return"
     /\ last.now - prev.end < prev.ttl) =>
        /\ store[prev.key].exists
        /\ store[prev.key].text = Dumps(prev.result)

\* C27: a call answered from the entry returns the result that the call
\* that stored the entry returned.
C27_CacheTransparency ==
    (/\ SameKeyPair /\ FirstFetched
     /\ ~last.invoked /\ last.outcome = "return") =>
        last.result = prev.result

(***************************************************************************)
(* ccapi as it is called: ccapi(method, **kwargs), lines 221-229, 247-250  *)
(***************************************************************************)
MaxClockKw == 2     \* the clock stops here for calls made with kwargs

\* line 225: the cache_secs a call has when it names none
DefaultCacheSecs == 20

\* int(text) of the texts the environment variable is given here
int(text) == CASE text = "0" -> 0
               [] text = "2" -> 2
               [] text = "20" -> 20

\* lines 225-227: the effective TTL; the environment has the last word
CacheSecs(kw, env) ==
    IF "CCPR_CACHE_SECS" \in DOMAIN env THEN int(env["CCPR_CACHE_SECS"])
    ELSE IF "cache_secs" \in DOMAIN kw THEN kw["cache_secs"]
    ELSE DefaultCacheSecs

\* the passthrough is dropped
KwJoinKeyNone(kw) == NoneVal

\* line 229: kwargs.pop('_join_key', None)
KwJoinKey(kw) == Get(kw, "_join_key")

\* lines 224-229: what is left of kwargs after the three pops
KwArgs(kw) == Pop(Pop(Pop(kw, "client"), "cache_secs"), "_join_key")

\* the arguments the remote operations are called with
NoArgs == [f \in {} |-> NoneVal]
PrArgs == [pullRequestId |-> Str("1")]

\* lines 247-250: the cache file of a call, method + sha256 of the
\* remaining kwargs (the digest taken as free of collisions)
CacheFile(method, args) ==
    CASE method = "list_repositories" /\ args = NoArgs
            -> "list_repositories-h1"
      [] method = "get_pull_request" /\ args = PrArgs
            -> "get_pull_request-h2"

\* ccapi(method, **kw) under environment env: the summary of Ccapi with
\* the kwargs of the call and what the remote operation was called with
CcapiKw(dir, now, method, kw, env, failed, d) ==
    LET args == KwArgs(kw)
        c == Ccapi(dir, now, CacheFile(method, args), CacheSecs(kw, env),
                   failed, d, "ok", KwJoinKey(kw))
    IN  c @@ [method |-> method, kwargs |-> kw,
              sent |-> IF c.invoked THEN args ELSE NoneVal]

\* the kwargs a caller may add to the arguments of the operation
KwOptions ==
    {NoArgs, [cache_secs |-> 2],
     [_join_key |-> Str("a")], [_join_key |-> Str("b")],
     [client |-> "codecommit", cache_secs |-> 2, _join_key |-> Str("b")]}
KwCalls ==
    {<<"list_repositories", o>> : o \in KwOptions}
    \cup {<<"get_pull_request", Update(PrArgs, o)>> : o \in KwOptions}
KwEnvs == {NoArgs, [CCPR_CACHE_SECS |-> "0"], [CCPR_CACHE_SECS |-> "2"]}

\* what is remembered of the call before the last one, with its kwargs
BriefKw(c) ==
    IF ~c.valid THEN NoCall
    ELSE Brief(c) @@ [method |-> c.method, kwargs |-> c.kwargs]

CallKw ==
    \E call \in KwCalls, env \in KwEnvs, failed \in BOOLEAN,
       d \in 0..MaxFetch :
        /\ clock + d + 1 <= MaxClockKw
        /\ LET c == CcapiKw(store, clock, call[1], call[2], env, failed, d)
           IN  /\ store' = c.dir
               /\ last' = Pop(c, "dir")
               /\ prev' = BriefKw(last)
               /\ clock' = c.end + 1
        /\ UNCHANGED <<jvars, dvars, mvars, xvars>>

TickKw ==
    /\ clock < MaxClockKw
    /\ Tick

KwNext == CallKw \/ TickKw

SpecKw == Init /\ [][KwNext]_vars

\* C23: no cache entry and no returned result holds ResponseMetadata; the
\* join key given as _join_key is in the returned result and only there:
\* it is not among the arguments the remote operation was called with, it
\* is in no cache entry, and two calls that differ in nothing but their
\* join key use the same cache file.
C23_SideChannelHygiene ==
    /\ \A k \in Keys :
          (store[k].exists /\ store[k].text.ok) =>
              /\ "ResponseMetadata" \notin DOMAIN store[k].text.doc
              /\ "_join_key" \notin DOMAIN store[k].text.doc
    /\ last.valid =>
          /\ last.outcome = "return" =>
                /\ "ResponseMetadata" \notin DOMAIN last.result
                /\ IF "_join_key" \in DOMAIN last.kwargs
                     THEN /\ "_join_key" \in DOMAIN last.result
                          /\ last.result["_join_key"]
                                = last.kwargs["_join_key"]
                     ELSE "_join_key" \notin DOMAIN last.result
          /\ last.invoked =>
                DOMAIN last.sent \cap {"_join_key", "cache_secs", "client"}
                   = {}
    /\ (/\ prev.valid /\ last.valid
        /\ prev.method = last.method
        /\ Pop(prev.kwargs, "_join_key") = Pop(last.kwargs, "_join_key")) =>
          last.key = prev.key

\* a call with join key b answered from the entry a call with join key a
\* stored
C23_Witness ==
    /\ prev.valid /\ last.valid
    /\ prev.invoked /\ prev.outcome = "return"
    /\ ~last.invoked /\ last.outcome = "return"
    /\ "_join_key" \in DOMAIN prev.result
    /\ "_join_key" \in DOMAIN last.result
    /\ prev.result["_join_key"] # last.result["_join_key"]

(***************************************************************************)
(* The shared worker pool EX (line 43) and what is fanned out over it:     *)
(* the secondary calls of a join step (lines 335-338) and the tree walk    *)
(* of grep (lines 858-878). A task is queued when it is submitted and      *)
(* holds one of the pool's worker threads from the moment it is started    *)
(* until it returns.                                                       *)
(***************************************************************************)
\* line 43: ThreadPoolExecutor(max_workers=5)
max_workers == 5
MaxCalls == 6       \* most secondary calls of a join step
MaxDirs == 5        \* most subfolders of a folder tree

\* kind: "main" (the control thread), "call" (a secondary call), "file"
\* (_file_grep) or "grep" (_grep); owner: the task that submitted it
Task(kind, node, owner, st) ==
    [kind |-> kind, node |-> node, owner |-> owner, st |-> st]

\* the tasks that hold a worker thread of the pool
Running(tasks) ==
    {i \in 1..Len(tasks) : /\ tasks[i].kind # "main"
                           /\ tasks[i].st \in {"running", "files", "dirs"}}
Busy(tasks) == Cardinality(Running(tasks))

\* a worker thread for every task
CanStartAlways(busy) == TRUE

\* the pool starts a queued task only on one of its max_workers threads
CanStart(busy) == busy < max_workers

\* EX.map(fn, items): one task per item, all submitted at once, in order
Submitted(tasks, owner, kind, nodes) ==
    tasks \o [i \in 1..Len(nodes) |-> Task(kind, nodes[i], owner, "queued")]
Enqueued(queue, tasks, n) == queue \o [i \in 1..n |-> Len(tasks) + i]

\* list(EX.map(..)) returns: every task of that kind of the owner is done
AllDone(tasks, owner, kind) ==
    \A i \in 1..Len(tasks) :
        (tasks[i].owner = owner /\ tasks[i].kind = kind) =>
            tasks[i].st = "done"

\* a folder: how many of its files match the pattern, and its subfolders
Folder(files, dirs) == [files |-> files, dirs |-> dirs]
\* lines 869-875: the file tasks of folder nd
FileNodes(tree, nd) == [i \in 1..tree[nd].files |-> nd]

\* a root folder with k subfolders, and k folders nested in one another
Flat(k, nf) ==
    [nd \in 0..k |-> IF nd = 0 THEN Folder(nf, [i \in 1..k |-> i])
                     ELSE Folder(nf, <<>>)]
Chain(k, nf) ==
    [nd \in 0..k |-> IF nd < k THEN Folder(nf, <<nd + 1>>)
                     ELSE Folder(nf, <<>>)]

JoinJobs ==
    {[kind |-> "join", n |-> n, recursive |-> FALSE, tree |-> <<>>] :
        n \in 0..MaxCalls}
GrepJobs ==
    {[kind |-> "grep", n |-> 0, recursive |-> r, tree |-> t] :
        r \in BOOLEAN,
        t \in {Flat(k, nf) : k \in 0..MaxDirs, nf \in 0..1}
              \cup {Chain(k, nf) : k \in 0..MaxDirs, nf \in 0..1}}

\* lines 335-338: list(EX.map(.., join_kwargs)), the submission
PoolJoin ==
    /\ pjob.kind = "join"
    /\ ptasks[1].st = "start"
    /\ ptasks' = Submitted([ptasks EXCEPT ![1].st = "calls"], 1, "call",
                           [i \in 1..pjob.n |-> i])
    /\ pqueue' = Enqueued(pqueue, ptasks, pjob.n)
    /\ UNCHANGED pjob
    /\ UNCHANGED <<cvars, jvars, dvars, mvars, tvars, svars>>

\* lines 335-338: list(..) has every result
PoolJoined ==
    /\ pjob.kind = "join"
    /\ ptasks[1].st = "calls"
    /\ AllDone(ptasks, 1, "call")
    /\ ptasks' = [ptasks EXCEPT ![1].st = "done"]
    /\ UNCHANGED <<pjob, pqueue>>
    /\ UNCHANGED <<cvars, jvars, dvars, mvars, tvars, svars>>

\* lines 858-875: _grep(r, f) up to the submission of its file tasks
GrepEnter(tasks, i) ==
    Submitted([tasks EXCEPT ![i].st = "files"], i, "file",
              FileNodes(pjob.tree, tasks[i].node))

\* line 892: _grep(r, path) in the control thread
PoolGrep ==
    /\ pjob.kind = "grep"
    /\ ptasks[1].st = "start"
    /\ ptasks' = GrepEnter(ptasks, 1)
    /\ pqueue' = Enqueued(pqueue, ptasks, pjob.tree[0].files)
    /\ UNCHANGED pjob
    /\ UNCHANGED <<cvars, jvars, dvars, mvars, tvars, svars>>

\* a worker thread takes the oldest queued task and runs it: a call or a
\* _file_grep runs to its end, a _grep up to list(EX.map(_file_grep, ..))
PoolStart ==
    /\ pqueue # <<>>
    /\ CanStart(Busy(ptasks))
    /\ LET i == Head(pqueue)
       IN  IF ptasks[i].kind = "grep"
           THEN /\ ptasks' = GrepEnter(ptasks, i)
                /\ pqueue' = Enqueued(Tail(pqueue), ptasks,
                                      pjob.tree[ptasks[i].node].files)
           ELSE /\ ptasks' = [ptasks EXCEPT ![i].st = "running"]
                /\ pqueue' = Tail(pqueue)
    /\ UNCHANGED pjob
    /\ UNCHANGED <<cvars, jvars, dvars, mvars, tvars, svars>>

\* a secondary call or a _file_grep returns
PoolFinish ==
    /\ \E i \in 1..Len(ptasks) :
          /\ ptasks[i].st = "running"
          /\ ptasks' = [ptasks EXCEPT ![i].st = "done"]
    /\ UNCHANGED <<pjob, pqueue>>
    /\ UNCHANGED <<cvars, jvars, dvars, mvars, tvars, svars>>

\* lines 875-877: the file tasks are done; the subfolders are submitted
PoolFilesDone ==
    /\ \E i \in 1..Len(ptasks) :
          /\ ptasks[i].st = "files"
          /\ AllDone(ptasks, i, "file")
          /\ LET dirs == pjob.tree[ptasks[i].node].dirs
             IN  IF pjob.recursive /\ Len(dirs) > 0
                 THEN /\ ptasks' = Submitted([ptasks EXCEPT ![i].st = "dirs"],
                                             i, "grep", dirs)
                      /\ pqueue' = Enqueued(pqueue, ptasks, Len(dirs))
                 ELSE /\ ptasks' = [ptasks EXCEPT ![i].st = "done"]
                      /\ UNCHANGED pqueue
    /\ UNCHANGED pjob
    /\ UNCHANGED <<cvars, jvars, dvars, mvars, tvars, svars>>

\* lines 877-878: the subfolder tasks are done and _grep returns
PoolDirsDone ==
    /\ \E i \in 1..Len(ptasks) :
          /\ ptasks[i].st = "dirs"
          /\ AllDone(ptasks, i, "grep")
          /\ ptasks' = [ptasks EXCEPT ![i].st = "done"]
    /\ UNCHANGED <<pjob, pqueue>>
    /\ UNCHANGED <<cvars, jvars, dvars, mvars, tvars, svars>>

PoolInit ==
    /\ CacheInit
    /\ JoinIdle
    /\ DiffIdle
    /\ CmdIdle
    /\ ParIdle
    /\ ServiceIdle
    /\ pjob \in JoinJobs \cup GrepJobs
    /\ ptasks = <<Task("main", 0, 0, "start")>>
    /\ pqueue = <<>>

PoolNext ==
    \/ PoolJoin \/ PoolJoined \/ PoolGrep \/ PoolStart \/ PoolFinish
    \/ PoolFilesDone \/ PoolDirsDone

SpecPool == PoolInit /\ [][PoolNext]_vars

\* C21: at no time do more than max_workers (5) of the tasks submitted to
\* the pool execute, however many a join step or a folder submits.
C21_BoundedFanOut == Busy(ptasks) <= max_workers

\* a join step of more than five records: five calls execute, others wait
C21_Witness ==
    /\ pjob.kind = "join"
    /\ Busy(ptasks) = max_workers
    /\ pqueue # <<>>
    /\ \A i \in Running(ptasks) : ptasks[i].st = "running"

\* C30: the pool never gets to where every worker thread is held by a
\* _grep that waits for tasks still in the queue.
C30_TreeWalkNeverStarves ==
    ~(/\ pjob.kind = "grep"
      /\ pqueue # <<>>
      /\ Busy(ptasks) = max_workers
      /\ \A i \in Running(ptasks) : ptasks[i].st \in {"files", "dirs"})

(***************************************************************************)
(* ccapi run by two pool threads at once (lines 335-338 submit them), one  *)
(* step of a thread per action: the sweep and the existence test (lines    *)
(* 235-252), the read of the cache file (line 253), the remote call        *)
(* (lines 257-260), open(cache_file, 'w') (line 264), which leaves the     *)
(* file empty, and the write of the text (line 264). The service does not  *)
(* fail and answers as RemoteResponse says.                                *)
(***************************************************************************)
MaxClockPar == 3    \* the clock stops here while the threads run

\* where a thread is, what it fetched, how its call ended
ThreadAt(pc, r, outcome, result) ==
    [pc |-> pc, r |-> r, outcome |-> outcome, result |-> result]

\* lines 266-267
Attach(r, join_key) == SetItem(r, "_join_key", join_key)

\* the response as ccapi keeps it, line 260
Kept(k) == Pop(RemoteResponse(k), "ResponseMetadata")

\* an entry an earlier call wrote at time 0
Stored(k) == File(0, Dumps(Kept(k)))

\* the cache_secs of the calls, the same for both (lines 320-321)
ParTtls == {0, 2}
ParStores == {[k \in Keys |-> NoFile], [k \in Keys |-> Stored(k)]}
ParJobs ==
    {[keys |-> <<a, b>>, ttl |-> t, store0 |-> s] :
        a \in Keys, b \in Keys, t \in ParTtls, s \in ParStores}

\* lines 235-252: now, the sweep, the cache file, the existence test
ParBegin ==
    \E i \in DOMAIN thr :
        /\ thr[i].pc = "queued"
        /\ store' = Sweep(store, clock, tjob.ttl)
        /\ thr' = [thr EXCEPT ![i].pc =
                      IF UseCache(tjob.ttl, store'[tjob.keys[i]].exists)
                      THEN "read" ELSE "fetch"]
        /\ UNCHANGED <<clock, last, prev, tjob>>
        /\ UNCHANGED <<jvars, dvars, mvars, pvars, svars>>

\* line 253: open(cache_file, 'r').read() and json.loads
ParRead ==
    \E i \in DOMAIN thr :
        /\ thr[i].pc = "read"
        /\ LET f == store[tjob.keys[i]]
           IN  thr' = [thr EXCEPT ![i] =
                  IF ~f.exists \/ LoadsRaises(f.text)
                  THEN ThreadAt("done", NoneVal, "raise", NoneVal)
                  ELSE ThreadAt("done", NoneVal, "return",
                                Attach(Loads(f.text), Str(tjob.keys[i])))]
        /\ UNCHANGED <<cvars, tjob>>
        /\ UNCHANGED <<jvars, dvars, mvars, pvars, svars>>

\* lines 257-261: the remote call, ResponseMetadata popped
ParFetch ==
    \E i \in DOMAIN thr :
        /\ thr[i].pc = "fetch"
        /\ LET r == Kept(tjob.keys[i])
           IN  thr' = [thr EXCEPT ![i] =
                  IF ShouldWrite(tjob.ttl)
                  THEN ThreadAt("open", r, "none", NoneVal)
                  ELSE ThreadAt("done", r, "return",
                                Attach(r, Str(tjob.keys[i])))]
        /\ UNCHANGED <<cvars, tjob>>
        /\ UNCHANGED <<jvars, dvars, mvars, pvars, svars>>

\* line 264: open(cache_file, 'w') truncates the file
ParOpen ==
    \E i \in DOMAIN thr :
        /\ thr[i].pc = "open"
        /\ store' = [store EXCEPT ![tjob.keys[i]] = File(clock, EmptyText)]
        /\ thr' = [thr EXCEPT ![i].pc = "write"]
        /\ UNCHANGED <<clock, last, prev, tjob>>
        /\ UNCHANGED <<jvars, dvars, mvars, pvars, svars>>

\* line 264: the text reaches the file; lines 266-268
ParWrite ==
    \E i \in DOMAIN thr :
        /\ thr[i].pc = "write"
        /\ store' = [store EXCEPT ![tjob.keys[i]] =
                        File(clock, Dumps(thr[i].r))]
        /\ thr' = [thr EXCEPT ![i] =
                      ThreadAt("done", thr[i].r, "return",
                               Attach(thr[i].r, Str(tjob.keys[i])))]
        /\ UNCHANGED <<clock, last, prev, tjob>>
        /\ UNCHANGED <<jvars, dvars, mvars, pvars, svars>>

\* time passes while the threads run
ParTick ==
    /\ clock < MaxClockPar
    /\ clock' = clock + 1
    /\ UNCHANGED <<store, last, prev>>
    /\ UNCHANGED <<jvars, dvars, mvars, xvars>>

ParInit ==
    /\ clock = 0
    /\ last = NoCall
    /\ prev = NoCall
    /\ JoinIdle
    /\ DiffIdle
    /\ CmdIdle
    /\ PoolIdle
    /\ ServiceIdle
    /\ tjob \in ParJobs
    /\ store = tjob.store0
    /\ thr = [i \in 1..2 |-> ThreadAt("queued", NoneVal, "none", NoneVal)]

ParNext ==
    ParBegin \/ ParRead \/ ParFetch \/ ParOpen \/ ParWrite \/ ParTick

SpecPar == ParInit /\ [][ParNext]_vars

\* lines 341-348 on the two results: the records of the step, each with
\* the join key of its call, enriched with the whole response (store_root)
ParRecs(keys) ==
    [i \in 1..Len(keys) |->
        Rec(i, DictV([id |-> Str(keys[i]), _join_key |-> Str(keys[i])]))]
StepOutput(keys, results) ==
    IF \E i \in 1..Len(results) : results[i].outcome # "return"
    THEN [outcome |-> "raise", recs |-> <<>>]
    ELSE [outcome |-> "return",
          recs |-> MergeAll(ParRecs(keys),
                            Lookup([i \in 1..Len(results) |->
                                       DictV(results[i].result)], TRUE))]

\* the two calls made one after the other, in the order of submission
SeqResults(job) ==
    LET c1 == Ccapi(job.store0, 0, job.keys[1], job.ttl, FALSE, 0, "ok",
                    Str(job.keys[1]))
        c2 == Ccapi(c1.dir, 0, job.keys[2], job.ttl, FALSE, 0, "ok",
                    Str(job.keys[2]))
    IN  <<[outcome |-> c1.outcome, result |-> c1.result],
          [outcome |-> c2.outcome, result |-> c2.result]>>

\* C22: with the clock standing still, whatever the interleaving of the two
\* secondary calls, the step gives the output it gives when the calls run
\* one after the other.
C22_SchedulingIndependence ==
    (/\ tjob # NoneVal
     /\ clock = 0
     /\ \A i \in DOMAIN thr : thr[i].pc = "done") =>
        StepOutput(tjob.keys,
                   [i \in DOMAIN thr |-> [outcome |-> thr[i].outcome,
                                          result |-> thr[i].result]])
           = StepOutput(tjob.keys, SeqResults(tjob))

\* C24: a call that runs beside another one ends with a result, and the
\* result is the response of the service, as fetched or as a completed
\* write serialized it; no call reads an empty or missing file.
C24_ConcurrentCallsUnharmed ==
    \A i \in DOMAIN thr :
        thr[i].pc = "done" =>
            /\ thr[i].outcome = "return"
            /\ Pop(thr[i].result, "_join_key")
                  \in {Kept(tjob.keys[i]), Loads(Dumps(Kept(tjob.keys[i])))}

(***************************************************************************)
(* approve, close and merge run one after another on one pull request,     *)
(* every call going through ccapi and its cache (lines 549-555, 665-720).  *)
(* The service keeps the pull request: closing or merging it makes its     *)
(* status CLOSED, approving it makes its approval rule satisfied.          *)
(***************************************************************************)
MaxClockSess == 3   \* the clock stops here for a series of commands

BoolV(b) == [t |-> "bool", v |-> b]

\* the cache files of the calls the commands make on pull request '1'
SessFiles ==
    {"get_pull_request", "evaluate_pull_request_approval_rules",
     "update_pull_request_approval_state", "update_pull_request_status",
     "merge_pull_request_by_squash"}

\* what the service answers to a call
Answer(rem, method) ==
    CASE method = "get_pull_request" ->
           [ResponseMetadata |-> Str("req-id"),
            pullRequest |-> DictV([pullRequestStatus |-> Str(rem.status),
                                   revisionId |-> Str("r1")])]
      [] method = "evaluate_pull_request_approval_rules" ->
           [ResponseMetadata |-> Str("req-id"),
            evaluation |-> DictV([approved |-> BoolV(rem.approved)])]
      [] OTHER -> [ResponseMetadata |-> Str("req-id")]

\* what a call that reaches the service does to the pull request
Served(rem, method) ==
    CASE method = "update_pull_request_approval_state" ->
           [rem EXCEPT !.approved = TRUE, !.served = Append(@, method)]
      [] method \in {"update_pull_request_status",
                     "merge_pull_request_by_squash"} ->
           [rem EXCEPT !.status = "CLOSED", !.served = Append(@, method)]
      [] OTHER -> rem

\* cc(method, **kw) without q, f, j: one ccapi call, and the service after
Via(dir, now, rem, method, kw, env) ==
    LET c == CcapiOn(dir, now, method, CacheSecs(kw, env), FALSE, 0, "ok",
                     NoneVal, Answer(rem, method))
    IN  [dir |-> c.dir, result |-> c.result, invoked |-> c.invoked,
         rem |-> IF c.invoked THEN Served(rem, method) ELSE rem]

\* lines 549-555: r = cc('get_pull_request', q='pullRequest', j=(evaluate_..,
\* store_root)): the pull request with the evaluation merged into it
Pr(dir, now, rem, env) ==
    LET a == Via(dir, now, rem, "get_pull_request", NoArgs, env)
        b == Via(a.dir, now, a.rem, "evaluate_pull_request_approval_rules",
                 NoArgs, env)
    IN  [dir |-> b.dir, rem |-> b.rem,
         r |-> Update(a.result["pullRequest"].v, b.result)]

\* lines 672-677, 692-697, 714-719: the state-changing call of a command
StateFile(command) ==
    CASE command = "approve" -> "update_pull_request_approval_state"
      [] command = "close" -> "update_pull_request_status"
      [] command = "merge" -> "merge_pull_request_by_squash"
StateKw(command) ==
    IF command = "approve" THEN NoArgs ELSE [cache_secs |-> 0]

\* how a command of the series ended
Ending(outcome, msg, status) ==
    [outcome |-> outcome, msg |-> msg, status |-> status, fatal |-> msg]

\* one command from start to end (close with confirm=True); fatal exits
Command(command) ==
    /\ mpc = "session"
    /\ clock < MaxClockSess
    /\ LET p == Pr(store, clock, remote, cmd.env)
           status == p.r["pullRequestStatus"].v
           approved == jq(<<"evaluation", "approved">>, DictV(p.r))
                          = BoolV(TRUE)
           refused == IF status = "CLOSED" THEN ClosedMsg(command)
                      ELSE IF command = "merge" /\ ~approved
                      THEN <<"PR not approved">>
                      ELSE <<>>
           u == Via(p.dir, clock, p.rem, StateFile(command),
                    StateKw(command), cmd.env)
       IN  /\ cmd' = [cmd EXCEPT
                        !.command = command,
                        !.wrote = remote.served # <<>>,
                        !.seen = [status |-> status, approved |-> approved],
                        !.actual = [status |-> remote.status,
                                    approved |-> remote.approved]]
           /\ IF refused # <<>>
              THEN /\ store' = p.dir
                   /\ remote' = p.rem
                   /\ console' = console \o fatal("", refused).printed
                   /\ mret' = Ending("exit", refused, 1)
                   /\ UNCHANGED calls
              ELSE /\ store' = u.dir
                   /\ remote' = u.rem
                   /\ calls' = Append(calls, StateFile(command))
                   /\ console' = Append(console, <<DoneMsg(command)>>)
                   /\ mret' = Ending("return", <<>>, 0)
    /\ clock' = clock + 1
    /\ UNCHANGED <<last, prev, mpc>>
    /\ UNCHANGED <<jvars, dvars, pvars, tvars>>

SessApprove == Command("approve")
SessClose == Command("close")
SessMerge == Command("merge")

\* time passes between two commands
SessTick ==
    /\ mpc = "session"
    /\ clock < MaxClockSess
    /\ clock' = clock + 1
    /\ UNCHANGED <<store, last, prev>>
    /\ UNCHANGED <<jvars, dvars, mvars, xvars>>

SessInit ==
    /\ clock = 0
    /\ store = [k \in SessFiles |-> NoFile]
    /\ last = NoCall
    /\ prev = NoCall
    /\ JoinIdle
    /\ DiffIdle
    /\ PoolIdle
    /\ ParIdle
    /\ remote \in [status : {"OPEN", "CLOSED"}, approved : BOOLEAN,
                   served : {<<>>}]
    /\ mpc = "session"
    /\ cmd \in {[env |-> e, command |-> "none", wrote |-> FALSE,
                 seen |-> NoneVal, actual |-> NoneVal] : e \in KwEnvs}
    /\ calls = <<>>
    /\ console = <<>>
    /\ mret = Ending("none", <<>>, 0)

SessNext == SessApprove \/ SessClose \/ SessMerge \/ SessTick

SpecSess == SessInit /\ [][SessNext]_vars

\* C28: every state-changing call a command makes after its guards reaches
\* the service: the calls the service served are the calls the commands
\* made, whatever the environment and however close the commands follow
\* one another.
C28_StateChangesReachService == remote.served = calls

\* C29: a command that follows a state-changing command that reached the
\* service sees, through pr(id), the pull request as the service has it.
C29_ReadYourWrites ==
    (cmd.command # "none" /\ cmd.wrote) => cmd.seen = cmd.actual

====
